---- MODULE Spec2Model ----
(***************************************************************************)
(* Model of the PubSub tracker (consumer runtime, log writers, metrics)    *)
(* and of the retry engine.                                                *)
(*                                                                         *)
(*   Spec       the tracker: Run's read loop, handleKafkaError,            *)
(*              processMessage, the periodic-metrics task and Stop         *)
(*   SpecRetry  retry.Do / retry.DoWithCallback with calculateDelay        *)
(*   SpecRetryFair  SpecRetry with the Do goroutine scheduled fairly       *)
(*   SpecFair   Spec with the Run goroutine scheduled fairly               *)
(*   SpecLifecycle  the tracker binary: Initialize, go Run, Stop, Close    *)
(*   SpecLifecycleFair  SpecLifecycle with main and Run scheduled fairly   *)
(*   SpecWriteFail  Spec with log files whose writes start to fail         *)
(*   SpecDLQ    retry.DeadLetterQueue and its delivery-report drain        *)
(*   SpecLoad   config.Load: defaults, YAML file, environment              *)
(*   SpecLogger one Logger called by the read loop, the ticker and Stop    *)
(*   SpecMonitor  the tracker with the Monitor tailing its two files       *)
(*   SpecWindow   Monitor.ProcessLog / ProcessEvent fed entry after entry  *)
(*   SpecTail     monitor.MonitorFile tailing a file that is written,      *)
(*                truncated, removed and created again                     *)
(*   SpecProducer OrderProducer.ProduceOrder called by Run                 *)
(***************************************************************************)
EXTENDS Integers, Sequences, FiniteSets, TLC

VARIABLES
    \* ---- tracker (internal/tracker) ----
    running,            \* Tracker.running
    stopChan,           \* "open" | "closed"
    panicked,           \* the process died of a runtime panic
    runPc,              \* position of the Run goroutine
    consecutiveErrors,  \* Run's local consecutiveErrors
    err,                \* Run's local err while a failed read is handled
    msg,                \* the message being processed
    metrics,            \* SystemMetrics counters
    eventLog,           \* lines of the audit file (eventLogger)
    logLog,             \* lines of the health file (logLogger)
    nextOffset,         \* broker: next offset to deliver, per partition
    events,             \* inputs so far: read results (timeouts apart), ticks, Stop
                        \* calls, write faults
    stopPc,             \* position of the caller of Stop
    tickPc,             \* position of the logPeriodicMetrics goroutine
    tickRate,           \* successRate basis computed under the read lock
    tickSeen,           \* counters read so far for the periodic health line
    \* ---- retry engine (internal/retry) ----
    fnKind,             \* "Do" | "DoWithCallback"
    cfg,                \* retry.Config
    retryPc,            \* position inside Do
    attempt,            \* the loop variable
    rets,               \* what each invocation of fn returned, in order
    lastErr,            \* Do's lastErr
    delay,              \* the delay being waited (nanoseconds)
    ctxDone,            \* the context is cancelled
    cancelledAt,        \* where Do was when the context was cancelled
    onRetry,            \* the calls made to the onRetry callback
    result,             \* the Result returned
    \* ---- tracker resources and cmd/tracker main ----
    logFile,            \* t.logLogger's file: "none" | "open" | "failing" | "closed"
    eventFile,          \* t.eventLogger's file: "none" | "open" | "failing" | "closed"
    rawConsumer,        \* t.rawConsumer: "nil" | "open" | "closed"
    mainPc,             \* position of main
    initErr,            \* what Initialize returned
    \* ---- dead-letter queue (internal/retry/dlq.go) ----
    dlqPc,              \* "new" | "ready" | "failed" | "closed"
    dlqEnabled,         \* DeadLetterQueue.enabled
    dlqProducer,        \* DeadLetterQueue.producer: "nil" | "open" | "closed"
    dlqDrain,           \* the handleDeliveryReports goroutine
    dlqQueue,           \* messages the producer accepted, not yet reported
    dlqEvents,          \* producer.Events()
    dlqStats,           \* DeadLetterQueue.stats
    dlqTopic,           \* messages delivered to the DLQ topic
    dlqCalls,           \* the Send calls made, with what each returned
    \* ---- configuration loader (internal/config/loader.go) ----
    env,                \* the process environment
    yaml,               \* the YAML file named by configPath
    loaded,             \* what Load returned
    \* ---- one Logger seen from inside (internal/tracker Logger) ----
    lgMu,               \* Logger.mu: "free" or the task that holds it
    lgPc,               \* position of each task inside its Logger call
    lgEntry,            \* the entry each task has built for its call
    lgFile,             \* the lines written to the Logger's file
    lgCalls,            \* calls begun so far
    \* ---- monitor (internal/monitor, cmd/monitor) ----
    monMetrics,         \* Monitor.Metrics counters
    RecentLogs,         \* Metrics.RecentLogs
    RecentEvents,       \* Metrics.RecentEvents
    monLogPos,          \* health entries handed to ProcessLog so far
    monEventPos,        \* audit entries handed to ProcessEvent so far
    \* ---- one MonitorFile goroutine and the file it tails ----
    tailInodes,         \* the files ever created under the name: their lines
    tailPath,           \* the file the name refers to now (0: none)
    tailOps,            \* operations done on the file by its writers so far
    tailPc,             \* position of the MonitorFile goroutine
    tailFile,           \* MonitorFile's file: the file its descriptor is open on
    currentPos,         \* MonitorFile's currentPos (in lines)
    statSize,           \* stat.Size() of the last os.Stat (in lines)
    newPos,             \* what readNewLines returned
    deliveries,         \* times each line was sent to the channel (2: more than once)
    \* ---- order producer (OrderProducer) ----
    sequence,           \* OrderProducer.sequence
    prodQueue,          \* the messages the Kafka client accepted, in order
    prodRets            \* what each ProduceOrder call returned, in order

trackerVars == <<running, stopChan, panicked, runPc, consecutiveErrors, err, msg,
                 metrics, eventLog, logLog, nextOffset, events, stopPc,
                 tickPc, tickRate, tickSeen>>

retryVars == <<fnKind, cfg, retryPc, attempt, rets, lastErr, delay, ctxDone,
               cancelledAt, onRetry, result>>

lifeVars == <<logFile, eventFile, rawConsumer, mainPc, initErr>>

dlqVars == <<dlqPc, dlqEnabled, dlqProducer, dlqDrain, dlqQueue, dlqEvents,
             dlqStats, dlqTopic, dlqCalls>>

loadVars == <<env, yaml, loaded>>

loggerVars == <<lgMu, lgPc, lgEntry, lgFile, lgCalls>>

monitorVars == <<monMetrics, RecentLogs, RecentEvents, monLogPos, monEventPos>>

tailVars == <<tailInodes, tailPath, tailOps, tailPc, tailFile, currentPos,
              statSize, newPos, deliveries>>

producerVars == <<sequence, prodQueue, prodRets>>

\* the components the tracker runs beside
peerVars == <<loggerVars, monitorVars, tailVars, producerVars>>

vars == <<trackerVars, retryVars, lifeVars, dlqVars, loadVars, peerVars>>

-----------------------------------------------------------------------------
(* Bounds of the model *)

\* read results other than timeouts, ticks, Stop calls and write faults, all
\* together
MaxEvents == 3
\* largest Config.MaxAttempts tried
MaxAttemptsBound == 3
\* rand.Float64() is drawn from {0, 1/JitterSteps, ..., (JitterSteps-1)/JitterSteps}
JitterSteps == 4
\* calls of DeadLetterQueue.Send
MaxSends == 2
\* calls of Log, LogError and LogEvent on one Logger, all tasks together
MaxCalls == 3
\* entries fed to ProcessLog, and entries fed to ProcessEvent
MaxIngest == 22
\* creations, appends, truncations and removals of the tailed file
MaxFileOps == 4
\* calls of ProduceOrder
MaxProduce == 6

(* Program constants *)

MaxErrors == 3
MaxRecentLogs == 20
MaxRecentEvents == 20
\* len(DefaultOrderTemplates)
NumTemplates == 10

Partitions == {0, 1}

-----------------------------------------------------------------------------
(* Values *)

NoMsg == [partition |-> -1, offset |-> -1, value |-> "none"]
NoErr == [typed |-> FALSE, code |-> "nil", text |-> <<>>]

\* Payloads a producer or a test puts on the topic: the JSON of an order that
\* passes Order.Validate, the JSON of an order that does not (no items), and
\* bytes that are not JSON ({"invalid-json").
Payloads == {"order", "invalid", "malformed"}

\* Errors ReadMessage can return through the KafkaConsumer interface: a
\* kafka.Error (typed, with a code) or any other error value (untyped).
\* The text is the result of Error(), as a sequence of words.
ErrTimeout     == [typed |-> TRUE,  code |-> "ErrTimedOut",       text |-> <<"timed", "out">>]
ErrAllDown     == [typed |-> TRUE,  code |-> "ErrAllBrokersDown", text |-> <<"brokers", "down">>]
ErrRefused     == [typed |-> TRUE,  code |-> "ErrTransport",      text |-> <<"Connection", "refused">>]
ErrAreDown     == [typed |-> TRUE,  code |-> "ErrTransport",      text |-> <<"2/2", "brokers", "are", "down">>]
ErrOther       == [typed |-> TRUE,  code |-> "ErrFail",           text |-> <<"read", "failed">>]
ErrGeneric     == [typed |-> FALSE, code |-> "none",              text |-> <<"something", "went", "wrong">>]
ErrGenRefused  == [typed |-> FALSE, code |-> "none",              text |-> <<"dial", "Connection", "refused">>]

ReadErrors == {ErrAllDown, ErrRefused, ErrAreDown, ErrOther, ErrGeneric, ErrGenRefused}

\* strings.Contains on word sequences
Contains(s, sub) ==
    \E i \in 1..(Len(s) - Len(sub) + 1) : SubSeq(s, i, i + Len(sub) - 1) = sub

\* A health-file line (models.LogEntry).
LogEntry(level, message, error, reason, counts) ==
    [level |-> level, message |-> message, error |-> error,
     reason |-> reason, counts |-> counts]

-----------------------------------------------------------------------------
(* Logger *)

\* Encode putting the new lines in front of the file's content
EncodeInFront(file, log, lines) == IF file = "open" THEN lines \o log ELSE log

\* encoder.Encode(entry) under the Logger's mutex: the lines are appended to
\* an open file; on a closed file, or one whose writes fail, Encode returns
\* an error, the error goes to stderr and nothing is written
Encode(file, log, lines) == IF file = "open" THEN log \o lines ELSE log

\* Logger.Log: one INFO/ERROR line without error text
Log(level, message, reason, counts) ==
    LogEntry(level, message, <<>>, reason, counts)

\* Logger.LogError: one ERROR line carrying err.Error()
LogError(message, e) ==
    LogEntry("ERROR", message, e.text, "", <<>>)

\* json.Unmarshal(msg.Value, &order): the error, or "nil"
Unmarshal(value) ==
    IF value \in {"order", "invalid"} THEN "nil" ELSE "unexpected end of JSON input"

\* Order.Validate on the order decoded from the payload: the error, or "nil"
Validate(value) ==
    IF value = "invalid" THEN "order must contain at least one item" ELSE "nil"

\* Logger.LogEvent: the audit line of a message
LogEvent(m, deserializationErr) ==
    [event_type      |-> IF deserializationErr # "nil"
                         THEN "message.received.deserialization_error"
                         ELSE "message.received",
     kafka_partition |-> m.partition,
     kafka_offset    |-> m.offset,
     raw_message     |-> m.value,
     deserialized    |-> (deserializationErr = "nil"),
     order_full      |-> IF deserializationErr = "nil" THEN m.value ELSE "",
     error           |-> IF deserializationErr # "nil" THEN deserializationErr ELSE ""]

-----------------------------------------------------------------------------
(* SystemMetrics *)

\* recordMetrics without the MessagesFailed branch
recordMetricsNoFailed(sm, processed, failed) ==
    [MessagesReceived  |-> sm.MessagesReceived + 1,
     MessagesProcessed |-> sm.MessagesProcessed + (IF processed THEN 1 ELSE 0),
     MessagesFailed    |-> sm.MessagesFailed]

recordMetrics(sm, processed, failed) ==
    [MessagesReceived  |-> sm.MessagesReceived + 1,
     MessagesProcessed |-> sm.MessagesProcessed + (IF processed THEN 1 ELSE 0),
     MessagesFailed    |-> sm.MessagesFailed + (IF failed THEN 1 ELSE 0)]

-----------------------------------------------------------------------------
(* Tracker.handleKafkaError: the new counter, the lines logged, shouldStop *)

isShutdownError(e) ==
    \/ Contains(e.text, <<"brokers", "are", "down">>)
    \/ Contains(e.text, <<"Connection", "refused">>)
    \/ e.code = "ErrAllBrokersDown"

\* handleKafkaError leaving the counter alone on a timeout
handleKafkaErrorNoReset(e, count) ==
    IF ~e.typed
    THEN [shouldStop |-> FALSE, count |-> count, logs |-> <<>>]
    ELSE IF e.code = "ErrTimedOut"
    THEN [shouldStop |-> FALSE, count |-> count, logs |-> <<>>]
    ELSE IF isShutdownError(e)
    THEN IF count + 1 >= MaxErrors
         THEN [shouldStop |-> TRUE, count |-> count + 1,
               logs |-> <<Log("INFO", "Kafka semble indisponible, arret du consommateur",
                              "brokers_unavailable", <<count + 1>>)>>]
         ELSE [shouldStop |-> FALSE, count |-> count + 1, logs |-> <<>>]
    ELSE IF count + 1 >= MaxErrors
         THEN [shouldStop |-> TRUE, count |-> count + 1,
               logs |-> <<LogError("Erreur de lecture du message Kafka", e),
                          LogError("Trop d'erreurs consecutives, arret du consommateur", e)>>]
         ELSE [shouldStop |-> FALSE, count |-> count + 1,
               logs |-> <<LogError("Erreur de lecture du message Kafka", e)>>]

handleKafkaError(e, count) ==
    IF ~e.typed
    THEN [shouldStop |-> FALSE, count |-> count, logs |-> <<>>]
    ELSE IF e.code = "ErrTimedOut"
    THEN [shouldStop |-> FALSE, count |-> 0, logs |-> <<>>]
    ELSE IF isShutdownError(e)
    THEN IF count + 1 >= MaxErrors
         THEN [shouldStop |-> TRUE, count |-> count + 1,
               logs |-> <<Log("INFO", "Kafka semble indisponible, arret du consommateur",
                              "brokers_unavailable", <<count + 1>>)>>]
         ELSE [shouldStop |-> FALSE, count |-> count + 1, logs |-> <<>>]
    ELSE IF count + 1 >= MaxErrors
         THEN [shouldStop |-> TRUE, count |-> count + 1,
               logs |-> <<LogError("Erreur de lecture du message Kafka", e),
                          LogError("Trop d'erreurs consecutives, arret du consommateur", e)>>]
         ELSE [shouldStop |-> FALSE, count |-> count + 1,
               logs |-> <<LogError("Erreur de lecture du message Kafka", e)>>]

-----------------------------------------------------------------------------
(* Initial state: New(cfg) with both loggers open, Run spawned *)

InitTracker ==
    /\ running = FALSE
    /\ stopChan = "open"
    /\ panicked = FALSE
    /\ runPc = "start"
    /\ consecutiveErrors = 0
    /\ err = NoErr
    /\ msg = NoMsg
    /\ metrics = [MessagesReceived |-> 0, MessagesProcessed |-> 0, MessagesFailed |-> 0]
    /\ eventLog = <<>>
    /\ logLog = <<>>
    /\ nextOffset = [p \in Partitions |-> 0]
    /\ events = 0
    /\ stopPc = "idle"
    /\ tickPc = "none"
    /\ tickRate = <<0, 0>>
    /\ tickSeen = [received |-> 0, processed |-> 0]

\* the retry engine is not called by the tracker: no Do is in progress
RetryIdle ==
    /\ fnKind = "Do"
    /\ cfg = [MaxAttempts |-> 3, InitialDelay |-> 0, MaxDelay |-> 0,
              MultNum |-> 1, MultDen |-> 1]
    /\ retryPc = "idle"
    /\ attempt = 0
    /\ rets = <<>>
    /\ lastErr = [kind |-> "nil", n |-> 0]
    /\ delay = 0
    /\ ctxDone = FALSE
    /\ cancelledAt = "never"
    /\ onRetry = <<>>
    /\ result = [Attempts |-> 0, Err |-> [kind |-> "nil", n |-> 0]]

\* Initialize has returned nil and main has spawned Run
LifeRunning ==
    /\ logFile = "open"
    /\ eventFile = "open"
    /\ rawConsumer = "open"
    /\ mainPc = "wait"
    /\ initErr = "nil"

\* no DeadLetterQueue is constructed by the tracker
DlqNone ==
    /\ dlqPc = "new"
    /\ dlqEnabled = FALSE
    /\ dlqProducer = "nil"
    /\ dlqDrain = "none"
    /\ dlqQueue = <<>>
    /\ dlqEvents = <<>>
    /\ dlqStats = [MessagesSent |-> 0, SendErrors |-> 0]
    /\ dlqTopic = <<>>
    /\ dlqCalls = <<>>

\* config.Load is not called by the tracker (it uses tracker.NewConfig)
LoadNone ==
    /\ env = <<>>
    /\ yaml = <<>>
    /\ loaded = <<>>

\* the tasks that write through one Logger
Tasks == {"run", "tick", "stop"}

NoEntry == [op |-> "none", task |-> "none", n |-> 0]

\* no Logger call is followed step by step
LoggerIdle ==
    /\ lgMu = "free"
    /\ lgPc = [t \in Tasks |-> "idle"]
    /\ lgEntry = [t \in Tasks |-> NoEntry]
    /\ lgFile = <<>>
    /\ lgCalls = 0

\* monitor.New(): no entry has reached the Monitor
MonitorNew ==
    /\ monMetrics = [MessagesReceived |-> 0, MessagesProcessed |-> 0,
                     MessagesFailed |-> 0, ErrorCount |-> 0]
    /\ RecentLogs = <<>>
    /\ RecentEvents = <<>>
    /\ monLogPos = 0
    /\ monEventPos = 0

\* the file does not exist yet and MonitorFile is in its first WaitForFile
TailStart ==
    /\ tailInodes = <<>>
    /\ tailPath = 0
    /\ tailOps = 0
    /\ tailPc = "open"
    /\ tailFile = 0
    /\ currentPos = 0
    /\ statSize = 0
    /\ newPos = 0
    /\ deliveries = [id \in 1..MaxFileOps |-> 0]

\* producer.New(cfg): sequence 1, nothing produced
ProducerNew ==
    /\ sequence = 1
    /\ prodQueue = <<>>
    /\ prodRets = <<>>

PeersIdle == LoggerIdle /\ MonitorNew /\ TailStart /\ ProducerNew

Init == InitTracker /\ RetryIdle /\ LifeRunning /\ DlqNone /\ PeersIdle /\ LoadNone

-----------------------------------------------------------------------------
(* Tracker.Run *)

\* Run: running = true under the mutex, spawn logPeriodicMetrics
RunStart ==
    /\ ~panicked
    /\ runPc = "start"
    /\ running' = TRUE
    /\ tickPc' = "select"
    /\ consecutiveErrors' = 0
    /\ runPc' = "head"
    /\ UNCHANGED <<stopChan, panicked, err, msg, metrics, eventLog, logLog,
                   nextOffset, events, stopPc, tickRate, tickSeen>>
    /\ UNCHANGED <<retryVars, lifeVars, dlqVars, loadVars, peerVars>>

\* for t.isRunning() { ... }: the loop head reads the flag under the mutex
LoopHead ==
    /\ ~panicked
    /\ runPc = "head"
    /\ runPc' = IF running THEN "read" ELSE "returned"
    /\ UNCHANGED <<running, stopChan, panicked, consecutiveErrors, err, msg, metrics,
                   eventLog, logLog, nextOffset, events, stopPc,
                   tickPc, tickRate, tickSeen>>
    /\ UNCHANGED <<retryVars, lifeVars, dlqVars, loadVars, peerVars>>

\* ReadMessage returns a message: consecutiveErrors = 0, processMessage begins
ReadMsg(p, value) ==
    /\ ~panicked
    /\ runPc = "read"
    /\ events < MaxEvents
    /\ msg' = [partition |-> p, offset |-> nextOffset[p], value |-> value]
    /\ nextOffset' = [nextOffset EXCEPT ![p] = @ + 1]
    /\ events' = events + 1
    /\ consecutiveErrors' = 0
    /\ runPc' = "audit"
    /\ UNCHANGED <<running, stopChan, panicked, err, metrics, eventLog, logLog,
                   stopPc, tickPc, tickRate, tickSeen>>
    /\ UNCHANGED <<retryVars, lifeVars, dlqVars, loadVars, peerVars>>

\* ReadMessage returns an error other than the timeout
ReadErr(e) ==
    /\ ~panicked
    /\ runPc = "read"
    /\ events < MaxEvents
    /\ events' = events + 1
    /\ err' = e
    /\ runPc' = "handle"
    /\ UNCHANGED <<running, stopChan, panicked, consecutiveErrors, msg, metrics,
                   eventLog, logLog, nextOffset, stopPc, tickPc,
                   tickRate, tickSeen>>
    /\ UNCHANGED <<retryVars, lifeVars, dlqVars, loadVars, peerVars>>

\* ReadMessage times out (kafka.ErrTimedOut)
ReadTimeout ==
    /\ ~panicked
    /\ runPc = "read"
    /\ err' = ErrTimeout
    /\ runPc' = "handle"
    /\ UNCHANGED <<running, stopChan, panicked, consecutiveErrors, msg, metrics,
                   eventLog, logLog, nextOffset, events, stopPc, tickPc,
                   tickRate, tickSeen>>
    /\ UNCHANGED <<retryVars, lifeVars, dlqVars, loadVars, peerVars>>

\* shouldStop := t.handleKafkaError(err, &consecutiveErrors); break or continue
HandleError ==
    /\ ~panicked
    /\ runPc = "handle"
    /\ LET r == handleKafkaError(err, consecutiveErrors)
       IN  /\ consecutiveErrors' = r.count
           /\ logLog' = Encode(logFile, logLog, r.logs)
           /\ runPc' = IF r.shouldStop THEN "returned" ELSE "head"
    /\ err' = NoErr
    /\ UNCHANGED <<running, stopChan, panicked, msg, metrics, eventLog,
                   nextOffset, events, stopPc, tickPc, tickRate, tickSeen>>
    /\ UNCHANGED <<retryVars, lifeVars, dlqVars, loadVars, peerVars>>

-----------------------------------------------------------------------------
(* Tracker.processMessage, one step per call that other goroutines can see *)

\* processMessage writing the audit line only for payloads that deserialize
ProcessAuditValidOnly ==
    /\ ~panicked
    /\ runPc = "audit"
    /\ eventLog' = IF Unmarshal(msg.value) = "nil"
                   THEN Encode(eventFile, eventLog, <<LogEvent(msg, "nil")>>)
                   ELSE eventLog
    /\ runPc' = "metrics"
    /\ UNCHANGED <<running, stopChan, panicked, consecutiveErrors, err, msg, metrics,
                   logLog, nextOffset, events, stopPc, tickPc, tickRate, tickSeen>>
    /\ UNCHANGED <<retryVars, lifeVars, dlqVars, loadVars, peerVars>>

\* processMessage returning, and Run with it, when the audit write fails
ProcessAuditRaises ==
    /\ ~panicked
    /\ runPc = "audit"
    /\ eventLog' = Encode(eventFile, eventLog, <<LogEvent(msg, Unmarshal(msg.value))>>)
    /\ runPc' = IF eventFile = "open" THEN "metrics" ELSE "returned"
    /\ UNCHANGED <<running, stopChan, panicked, consecutiveErrors, err, msg, metrics,
                   logLog, nextOffset, events, stopPc, tickPc, tickRate, tickSeen>>
    /\ UNCHANGED <<retryVars, lifeVars, dlqVars, loadVars, peerVars>>

\* json.Unmarshal, then t.eventLogger.LogEvent(msg, orderForLog, deserializationErr)
ProcessAudit ==
    /\ ~panicked
    /\ runPc = "audit"
    /\ eventLog' = Encode(eventFile, eventLog, <<LogEvent(msg, Unmarshal(msg.value))>>)
    /\ runPc' = "metrics"
    /\ UNCHANGED <<running, stopChan, panicked, consecutiveErrors, err, msg, metrics,
                   logLog, nextOffset, events, stopPc, tickPc, tickRate, tickSeen>>
    /\ UNCHANGED <<retryVars, lifeVars, dlqVars, loadVars, peerVars>>

\* processMessage with the arguments of recordMetrics exchanged
ProcessMetricsSwapped ==
    /\ ~panicked
    /\ runPc = "metrics"
    /\ LET failed == Unmarshal(msg.value) # "nil"
       IN  metrics' = recordMetrics(metrics, failed, ~failed)
    /\ runPc' = "after"
    /\ UNCHANGED <<running, stopChan, panicked, consecutiveErrors, err, msg,
                   eventLog, logLog, nextOffset, events, stopPc,
                   tickPc, tickRate, tickSeen>>
    /\ UNCHANGED <<retryVars, lifeVars, dlqVars, loadVars, peerVars>>

\* t.metrics.recordMetrics(false, true) or (true, false)
ProcessMetrics ==
    /\ ~panicked
    /\ runPc = "metrics"
    /\ LET failed == Unmarshal(msg.value) # "nil"
       IN  metrics' = recordMetrics(metrics, ~failed, failed)
    /\ runPc' = "after"
    /\ UNCHANGED <<running, stopChan, panicked, consecutiveErrors, err, msg,
                   eventLog, logLog, nextOffset, events, stopPc,
                   tickPc, tickRate, tickSeen>>
    /\ UNCHANGED <<retryVars, lifeVars, dlqVars, loadVars, peerVars>>

\* processMessage without the health line of a failed deserialization
ProcessAfterNoLog ==
    /\ ~panicked
    /\ runPc = "after"
    /\ msg' = NoMsg
    /\ runPc' = "head"
    /\ UNCHANGED <<running, stopChan, panicked, consecutiveErrors, err, metrics,
                   eventLog, logLog, nextOffset, events, stopPc, tickPc, tickRate, tickSeen>>
    /\ UNCHANGED <<retryVars, lifeVars, dlqVars, loadVars, peerVars>>

\* t.logLogger.LogError(...) for a malformed payload, displayOrder otherwise
ProcessAfter ==
    /\ ~panicked
    /\ runPc = "after"
    /\ logLog' = IF Unmarshal(msg.value) # "nil"
                 THEN Encode(logFile, logLog,
                             <<LogEntry("ERROR", "Erreur de deserialisation du message",
                                        <<Unmarshal(msg.value)>>, "", <<msg.offset>>)>>)
                 ELSE logLog
    /\ msg' = NoMsg
    /\ runPc' = "head"
    /\ UNCHANGED <<running, stopChan, panicked, consecutiveErrors, err, metrics,
                   eventLog, nextOffset, events, stopPc, tickPc, tickRate, tickSeen>>
    /\ UNCHANGED <<retryVars, lifeVars, dlqVars, loadVars, peerVars>>

-----------------------------------------------------------------------------
(* Tracker.logPeriodicMetrics *)

\* case <-ticker.C: successRate computed under metrics.mu.RLock
TickSnapshot ==
    /\ ~panicked
    /\ tickPc = "select"
    /\ events < MaxEvents
    /\ events' = events + 1
    /\ tickRate' = <<metrics.MessagesProcessed, metrics.MessagesReceived>>
    /\ tickPc' = "received"
    /\ UNCHANGED <<running, stopChan, panicked, runPc, consecutiveErrors, err, msg,
                   metrics, eventLog, logLog, nextOffset, stopPc, tickSeen>>
    /\ UNCHANGED <<retryVars, lifeVars, dlqVars, loadVars, peerVars>>

\* after RUnlock, the map literal passed to Log is evaluated entry by entry
\* without the lock: "messages_received": t.metrics.MessagesReceived
TickReadReceived ==
    /\ ~panicked
    /\ tickPc = "received"
    /\ tickSeen' = [tickSeen EXCEPT !.received = metrics.MessagesReceived]
    /\ tickPc' = "processed"
    /\ UNCHANGED <<running, stopChan, panicked, runPc, consecutiveErrors, err, msg,
                   metrics, eventLog, logLog, nextOffset, events, stopPc, tickRate>>
    /\ UNCHANGED <<retryVars, lifeVars, dlqVars, loadVars, peerVars>>

\* "messages_processed": t.metrics.MessagesProcessed
TickReadProcessed ==
    /\ ~panicked
    /\ tickPc = "processed"
    /\ tickSeen' = [tickSeen EXCEPT !.processed = metrics.MessagesProcessed]
    /\ tickPc' = "log"
    /\ UNCHANGED <<running, stopChan, panicked, runPc, consecutiveErrors, err, msg,
                   metrics, eventLog, logLog, nextOffset, events, stopPc, tickRate>>
    /\ UNCHANGED <<retryVars, lifeVars, dlqVars, loadVars, peerVars>>

\* "messages_failed": t.metrics.MessagesFailed, then t.logLogger.Log(...)
\* with the values read and the successRate computed under the lock
TickLog ==
    /\ ~panicked
    /\ tickPc = "log"
    /\ logLog' = Encode(logFile, logLog,
                        <<Log("INFO", "Metriques systeme periodiques", "",
                              <<tickSeen.received, tickSeen.processed,
                                metrics.MessagesFailed, tickRate>>)>>)
    /\ tickSeen' = [received |-> 0, processed |-> 0]
    /\ tickPc' = "select"
    /\ UNCHANGED <<running, stopChan, panicked, runPc, consecutiveErrors, err, msg,
                   metrics, eventLog, nextOffset, events, stopPc,
                   tickRate>>
    /\ UNCHANGED <<retryVars, lifeVars, dlqVars, loadVars, peerVars>>

\* case <-t.stopChan: return
TickStop ==
    /\ ~panicked
    /\ tickPc = "select"
    /\ stopChan = "closed"
    /\ tickPc' = "done"
    /\ UNCHANGED <<running, stopChan, panicked, runPc, consecutiveErrors, err, msg,
                   metrics, eventLog, logLog, nextOffset, events, stopPc,
                   tickRate, tickSeen>>
    /\ UNCHANGED <<retryVars, lifeVars, dlqVars, loadVars, peerVars>>

-----------------------------------------------------------------------------
(* Tracker.Stop *)

\* t.mu.Lock(); t.running = false; t.mu.Unlock()
StopFlag ==
    /\ ~panicked
    /\ stopPc = "idle"
    /\ events < MaxEvents
    /\ events' = events + 1
    /\ running' = FALSE
    /\ stopPc' = "close"
    /\ UNCHANGED <<stopChan, panicked, runPc, consecutiveErrors, err, msg, metrics,
                   eventLog, logLog, nextOffset, tickPc, tickRate, tickSeen>>
    /\ UNCHANGED <<retryVars, lifeVars, dlqVars, loadVars, peerVars>>

\* close(t.stopChan): closing a closed channel panics
StopClose ==
    /\ ~panicked
    /\ stopPc = "close"
    /\ IF stopChan = "closed"
       THEN /\ panicked' = TRUE
            /\ UNCHANGED <<stopChan, stopPc>>
       ELSE /\ stopChan' = "closed"
            /\ stopPc' = "log"
            /\ UNCHANGED panicked
    /\ UNCHANGED <<running, runPc, consecutiveErrors, err, msg, metrics, eventLog,
                   logLog, nextOffset, events, tickPc, tickRate, tickSeen>>
    /\ UNCHANGED <<retryVars, lifeVars, dlqVars, loadVars, peerVars>>

\* the final INFO line, with the counters read without the lock
StopLog ==
    /\ ~panicked
    /\ stopPc = "log"
    /\ logLog' = Encode(logFile, logLog,
                        <<Log("INFO", "Consommateur arrete proprement", "",
                              <<metrics.MessagesReceived, metrics.MessagesProcessed,
                                metrics.MessagesFailed>>)>>)
    /\ stopPc' = "idle"
    /\ UNCHANGED <<running, stopChan, panicked, runPc, consecutiveErrors, err, msg,
                   metrics, eventLog, nextOffset, events, tickPc, tickRate, tickSeen>>
    /\ UNCHANGED <<retryVars, lifeVars, dlqVars, loadVars, peerVars>>

-----------------------------------------------------------------------------

Next ==
    \/ RunStart
    \/ LoopHead
    \/ \E p \in Partitions, v \in Payloads : ReadMsg(p, v)
    \/ \E e \in ReadErrors : ReadErr(e)
    \/ ReadTimeout
    \/ HandleError
    \/ ProcessAudit
    \/ ProcessMetrics
    \/ ProcessAfter
    \/ TickSnapshot
    \/ TickReadReceived
    \/ TickReadProcessed
    \/ TickLog
    \/ TickStop
    \/ StopFlag
    \/ StopClose
    \/ StopLog


Spec == Init /\ [][Next]_vars

\* the steps of the goroutine that runs Run; a broker read always returns
\* (message, timeout or error)
RunStep ==
    \/ RunStart
    \/ LoopHead
    \/ \E p \in Partitions, v \in Payloads : ReadMsg(p, v)
    \/ \E e \in ReadErrors : ReadErr(e)
    \/ ReadTimeout
    \/ HandleError
    \/ ProcessAudit
    \/ ProcessMetrics
    \/ ProcessAfter

\* the Go scheduler keeps running the Run goroutine and the caller of Stop
SpecFair ==
    Spec /\ WF_vars(RunStep) /\ WF_vars(StopClose \/ StopLog)

-----------------------------------------------------------------------------
(* The tracker with log files whose writes fail *)

LogFiles == {"health", "audit"}

\* from now on every write to the file returns an error (disk full, I/O
\* error): encoder.Encode fails in Log, LogError and LogEvent
WriteFault(f) ==
    /\ events < MaxEvents
    /\ events' = events + 1
    /\ IF f = "health"
       THEN /\ logFile = "open"
            /\ logFile' = "failing"
            /\ UNCHANGED eventFile
       ELSE /\ eventFile = "open"
            /\ eventFile' = "failing"
            /\ UNCHANGED logFile
    /\ UNCHANGED <<rawConsumer, mainPc, initErr>>
    /\ UNCHANGED <<running, stopChan, panicked, runPc, consecutiveErrors, err, msg,
                   metrics, eventLog, logLog, nextOffset, stopPc, tickPc,
                   tickRate, tickSeen>>
    /\ UNCHANGED <<retryVars, dlqVars, loadVars, peerVars>>

NextWriteFail ==
    \/ \E f \in LogFiles : WriteFault(f)
    \/ RunStart
    \/ LoopHead
    \/ \E p \in Partitions, v \in Payloads : ReadMsg(p, v)
    \/ \E e \in ReadErrors : ReadErr(e)
    \/ ReadTimeout
    \/ HandleError
    \/ ProcessAudit
    \/ ProcessMetrics
    \/ ProcessAfter
    \/ TickSnapshot
    \/ TickReadReceived
    \/ TickReadProcessed
    \/ TickLog
    \/ TickStop
    \/ StopFlag
    \/ StopClose
    \/ StopLog

SpecWriteFail == Init /\ [][NextWriteFail]_vars

-----------------------------------------------------------------------------
(* Logger.Log, LogError and LogEvent, step by step *)

\* the three write operations; each is Lock, defer Unlock, build the entry,
\* encoder.Encode
LoggerOps == {"Log", "LogError", "LogEvent"}

InitLogger == Init

\* task t calls an operation of the Logger
LoggerCall(t, op) ==
    /\ lgPc[t] = "idle"
    /\ lgCalls < MaxCalls
    /\ lgCalls' = lgCalls + 1
    /\ lgEntry' = [lgEntry EXCEPT ![t] = [op |-> op, task |-> t, n |-> lgCalls + 1]]
    /\ lgPc' = [lgPc EXCEPT ![t] = "lock"]
    /\ UNCHANGED <<lgMu, lgFile>>
    /\ UNCHANGED <<trackerVars, retryVars, lifeVars, dlqVars, loadVars, monitorVars, tailVars, producerVars>>

\* an operation that goes on without taking l.mu
LoggerLockNoMutex(t) ==
    /\ lgPc[t] = "lock"
    /\ lgMu' = t
    /\ lgPc' = [lgPc EXCEPT ![t] = "encode"]
    /\ UNCHANGED <<lgEntry, lgFile, lgCalls>>
    /\ UNCHANGED <<trackerVars, retryVars, lifeVars, dlqVars, loadVars, monitorVars, tailVars, producerVars>>

\* l.mu.Lock(): blocks while another task holds the mutex; the entry is
\* built once the mutex is held
LoggerLock(t) ==
    /\ lgPc[t] = "lock"
    /\ lgMu = "free"
    /\ lgMu' = t
    /\ lgPc' = [lgPc EXCEPT ![t] = "encode"]
    /\ UNCHANGED <<lgEntry, lgFile, lgCalls>>
    /\ UNCHANGED <<trackerVars, retryVars, lifeVars, dlqVars, loadVars, monitorVars, tailVars, producerVars>>

\* l.encoder.Encode(entry): the entry and its newline go to the file in one
\* Write
LoggerEncode(t) ==
    /\ lgPc[t] = "encode"
    /\ lgFile' = Append(lgFile, lgEntry[t])
    /\ lgPc' = [lgPc EXCEPT ![t] = "unlock"]
    /\ UNCHANGED <<lgMu, lgEntry, lgCalls>>
    /\ UNCHANGED <<trackerVars, retryVars, lifeVars, dlqVars, loadVars, monitorVars, tailVars, producerVars>>

\* the deferred l.mu.Unlock(), and the return
LoggerUnlock(t) ==
    /\ lgPc[t] = "unlock"
    /\ lgMu' = "free"
    /\ lgEntry' = [lgEntry EXCEPT ![t] = NoEntry]
    /\ lgPc' = [lgPc EXCEPT ![t] = "idle"]
    /\ UNCHANGED <<lgFile, lgCalls>>
    /\ UNCHANGED <<trackerVars, retryVars, lifeVars, dlqVars, loadVars, monitorVars, tailVars, producerVars>>

NextLogger ==
    \/ \E t \in Tasks, op \in LoggerOps : LoggerCall(t, op)
    \/ \E t \in Tasks : LoggerLock(t)
    \/ \E t \in Tasks : LoggerEncode(t)
    \/ \E t \in Tasks : LoggerUnlock(t)

SpecLogger == InitLogger /\ [][NextLogger]_vars

-----------------------------------------------------------------------------
(* The Monitor: ProcessLog and ProcessEvent on the entries of the two files *)

\* the slice after append: one entry is dropped from the far end
WindowDropNewest(list, max) ==
    IF Len(list) > max THEN SubSeq(list, 1, max) ELSE list

\* if len(list) > max { list = list[1:] }
Window(list, max) ==
    IF Len(list) > max THEN Tail(list) ELSE list

\* entry.Message == "Métriques système périodiques" && entry.Metadata != nil
IsPeriodic(entry) ==
    entry.message = "Metriques systeme periodiques" /\ entry.counts # <<>>

\* Monitor.ProcessLog(entry): the window, the error count, and the three
\* counters overwritten with the cumulative ones of a periodic entry (rates
\* and times are not kept)
ProcessLog(entry) ==
    /\ RecentLogs' = Window(Append(RecentLogs, entry), MaxRecentLogs)
    /\ LET counted == IF entry.level = "ERROR"
                      THEN [monMetrics EXCEPT !.ErrorCount = @ + 1]
                      ELSE monMetrics
       IN  monMetrics' = IF IsPeriodic(entry)
                         THEN [counted EXCEPT !.MessagesReceived = entry.counts[1],
                                              !.MessagesProcessed = entry.counts[2],
                                              !.MessagesFailed = entry.counts[3]]
                         ELSE counted
    /\ UNCHANGED RecentEvents

\* ProcessEvent leaving MessagesReceived to the periodic entries
ProcessEventNoReceived(entry) ==
    /\ RecentEvents' = Window(Append(RecentEvents, entry), MaxRecentEvents)
    /\ monMetrics' = IF entry.deserialized
                     THEN [monMetrics EXCEPT !.MessagesProcessed = @ + 1]
                     ELSE [monMetrics EXCEPT !.MessagesFailed = @ + 1,
                                             !.ErrorCount = @ + 1]
    /\ UNCHANGED RecentLogs

\* Monitor.ProcessEvent(entry): the window, and the counters incremented
ProcessEvent(entry) ==
    /\ RecentEvents' = Window(Append(RecentEvents, entry), MaxRecentEvents)
    /\ monMetrics' = IF entry.deserialized
                     THEN [monMetrics EXCEPT !.MessagesProcessed = @ + 1,
                                             !.MessagesReceived = @ + 1]
                     ELSE [monMetrics EXCEPT !.MessagesFailed = @ + 1,
                                             !.ErrorCount = @ + 1,
                                             !.MessagesReceived = @ + 1]
    /\ UNCHANGED RecentLogs

\* case log := <-logChan: the next line MonitorFile(TrackerLogFile) read from
\* the health file, in file order
MonitorLog ==
    /\ monLogPos < Len(logLog)
    /\ ProcessLog(logLog[monLogPos + 1])
    /\ monLogPos' = monLogPos + 1
    /\ UNCHANGED monEventPos
    /\ UNCHANGED <<trackerVars, retryVars, lifeVars, dlqVars, loadVars, loggerVars, tailVars, producerVars>>

\* case event := <-eventChan: the next line MonitorFile(TrackerEventsFile)
\* read from the audit file, in file order
MonitorEvent ==
    /\ monEventPos < Len(eventLog)
    /\ ProcessEvent(eventLog[monEventPos + 1])
    /\ monEventPos' = monEventPos + 1
    /\ UNCHANGED monLogPos
    /\ UNCHANGED <<trackerVars, retryVars, lifeVars, dlqVars, loadVars, loggerVars, tailVars, producerVars>>

InitMonitor == Init

\* the tracker reads messages and logs its periodic metrics (the broker is
\* reachable and nobody calls Stop), the Monitor ingests what is written
NextMonitor ==
    \/ MonitorLog
    \/ MonitorEvent
    \/ RunStart
    \/ LoopHead
    \/ \E p \in Partitions, v \in Payloads : ReadMsg(p, v)
    \/ ReadTimeout
    \/ ProcessAudit
    \/ ProcessMetrics
    \/ ProcessAfter
    \/ TickSnapshot
    \/ TickReadReceived
    \/ TickReadProcessed
    \/ TickLog

SpecMonitor == InitMonitor /\ [][NextMonitor]_vars

-----------------------------------------------------------------------------
(* ProcessLog and ProcessEvent called entry after entry *)

\* the n-th entry given to ProcessLog: an INFO line "Test"
TestLogEntry(n) == Log("INFO", "Test", "", <<n>>)

\* the n-th entry given to ProcessEvent: a deserialized message
TestEventEntry(n) ==
    LogEvent([partition |-> 0, offset |-> n, value |-> "order"], "nil")

FeedLog ==
    /\ monLogPos < MaxIngest
    /\ ProcessLog(TestLogEntry(monLogPos + 1))
    /\ monLogPos' = monLogPos + 1
    /\ UNCHANGED monEventPos
    /\ UNCHANGED <<trackerVars, retryVars, lifeVars, dlqVars, loadVars, loggerVars, tailVars, producerVars>>

FeedEvent ==
    /\ monEventPos < MaxIngest
    /\ ProcessEvent(TestEventEntry(monEventPos + 1))
    /\ monEventPos' = monEventPos + 1
    /\ UNCHANGED monLogPos
    /\ UNCHANGED <<trackerVars, retryVars, lifeVars, dlqVars, loadVars, loggerVars, tailVars, producerVars>>

InitWindow == Init

NextWindow == FeedLog \/ FeedEvent

SpecWindow == InitWindow /\ [][NextWindow]_vars

-----------------------------------------------------------------------------
(* MonitorFile: one file tailed, positions and sizes counted in lines *)

\* A line of the file: the number of the write that appended it, and whether
\* it is longer than bufio.MaxScanTokenSize (64 KiB), as the audit line of a
\* large Kafka message is. Every line is written whole, in one Write.
Line(id, long) == [id |-> id, long |-> long]

\* the size of the file the name refers to
PathSize == Len(tailInodes[tailPath])

\* os.Create / OpenFile(O_CREATE): the name refers to a new, empty file
FileCreate ==
    /\ tailOps < MaxFileOps
    /\ tailPath = 0
    /\ tailInodes' = Append(tailInodes, <<>>)
    /\ tailPath' = Len(tailInodes) + 1
    /\ tailOps' = tailOps + 1
    /\ UNCHANGED <<tailPc, tailFile, currentPos, statSize, newPos, deliveries>>
    /\ UNCHANGED <<trackerVars, retryVars, lifeVars, dlqVars, loadVars, loggerVars, monitorVars, producerVars>>

\* a writer appends one line to the file the name refers to
FileAppend(long) ==
    /\ tailOps < MaxFileOps
    /\ tailPath # 0
    /\ tailInodes' = [tailInodes EXCEPT ![tailPath] = Append(@, Line(tailOps + 1, long))]
    /\ tailOps' = tailOps + 1
    /\ UNCHANGED <<tailPath, tailPc, tailFile, currentPos, statSize, newPos, deliveries>>
    /\ UNCHANGED <<trackerVars, retryVars, lifeVars, dlqVars, loadVars, loggerVars, monitorVars, producerVars>>

\* the file is truncated in place (rotation by copy and truncate)
FileTruncate ==
    /\ tailOps < MaxFileOps
    /\ tailPath # 0
    /\ PathSize > 0
    /\ tailInodes' = [tailInodes EXCEPT ![tailPath] = <<>>]
    /\ tailOps' = tailOps + 1
    /\ UNCHANGED <<tailPath, tailPc, tailFile, currentPos, statSize, newPos, deliveries>>
    /\ UNCHANGED <<trackerVars, retryVars, lifeVars, dlqVars, loadVars, loggerVars, monitorVars, producerVars>>

\* the file is removed or renamed away (rotation by rename); descriptors open
\* on it keep reading it
FileRemove ==
    /\ tailOps < MaxFileOps
    /\ tailPath # 0
    /\ tailPath' = 0
    /\ tailOps' = tailOps + 1
    /\ UNCHANGED <<tailInodes, tailPc, tailFile, currentPos, statSize, newPos, deliveries>>
    /\ UNCHANGED <<trackerVars, retryVars, lifeVars, dlqVars, loadVars, loggerVars, monitorVars, producerVars>>

\* file := WaitForFile(filename); var currentPos int64
TailOpen ==
    /\ tailPc = "open"
    /\ tailPath # 0
    /\ tailFile' = tailPath
    /\ currentPos' = 0
    /\ tailPc' = "stat"
    /\ UNCHANGED <<tailInodes, tailPath, tailOps, statSize, newPos, deliveries>>
    /\ UNCHANGED <<trackerVars, retryVars, lifeVars, dlqVars, loadVars, loggerVars, monitorVars, producerVars>>

\* stat, err := os.Stat(filename) and the three tests on it; with nothing new
\* the goroutine sleeps and stats again
TailStat ==
    /\ tailPc = "stat"
    /\ IF tailPath = 0
       THEN /\ tailPc' = "reopenGone"
            /\ tailFile' = 0
            /\ UNCHANGED statSize
       ELSE /\ statSize' = PathSize
            /\ IF PathSize < currentPos
               THEN tailPc' = "reopenShrunk" /\ tailFile' = 0
               ELSE /\ tailPc' = IF currentPos < PathSize THEN "read" ELSE "stat"
                    /\ UNCHANGED tailFile
    /\ UNCHANGED <<tailInodes, tailPath, tailOps, currentPos, newPos, deliveries>>
    /\ UNCHANGED <<trackerVars, retryVars, lifeVars, dlqVars, loadVars, loggerVars, monitorVars, producerVars>>

\* file = waitForFileRecreation(filename); currentPos = 0; continue
TailReopenGone ==
    /\ tailPc = "reopenGone"
    /\ tailPath # 0
    /\ tailFile' = tailPath
    /\ currentPos' = 0
    /\ tailPc' = "stat"
    /\ UNCHANGED <<tailInodes, tailPath, tailOps, statSize, newPos, deliveries>>
    /\ UNCHANGED <<trackerVars, retryVars, lifeVars, dlqVars, loadVars, loggerVars, monitorVars, producerVars>>

\* file = WaitForFile(filename); currentPos = 0, and on to the test
\* currentPos < stat.Size() with the size already read
TailReopenShrunk ==
    /\ tailPc = "reopenShrunk"
    /\ tailPath # 0
    /\ tailFile' = tailPath
    /\ currentPos' = 0
    /\ tailPc' = IF 0 < statSize THEN "read" ELSE "stat"
    /\ UNCHANGED <<tailInodes, tailPath, tailOps, statSize, newPos, deliveries>>
    /\ UNCHANGED <<trackerVars, retryVars, lifeVars, dlqVars, loadVars, loggerVars, monitorVars, producerVars>>

\* the lines the scanner returns from position pos of a file: all up to the
\* end, or those before the first line too long for the scanner's buffer
Scanned(content, pos) ==
    LET unread == {i \in (pos + 1)..Len(content) : TRUE}
        tooLong == {i \in unread : content[i].long}
    IN  IF tooLong = {}
        THEN unread
        ELSE {i \in unread : \A j \in tooLong : i < j}

\* what readNewLines returns: currentPos when scanner.Err() is not nil
\* (bufio.ErrTooLong), else the offset the descriptor is left at, the end of
\* the file or the position sought when the file ends before it
ReadPos(content, pos) ==
    IF \E i \in (pos + 1)..Len(content) : content[i].long
    THEN pos
    ELSE IF Len(content) > pos THEN Len(content) ELSE pos

\* sending each scanned line to the channel
Sent(content, pos) ==
    [id \in 1..MaxFileOps |->
        IF \E i \in Scanned(content, pos) : content[i].id = id
        THEN (IF deliveries[id] = 0 THEN 1 ELSE 2)
        ELSE deliveries[id]]

\* newPos := readNewLines(file, filename, currentPos, logChan, eventChan);
\* file.Close()
TailRead ==
    /\ tailPc = "read"
    /\ deliveries' = Sent(tailInodes[tailFile], currentPos)
    /\ newPos' = ReadPos(tailInodes[tailFile], currentPos)
    /\ tailFile' = 0
    /\ tailPc' = "reopenRead"
    /\ UNCHANGED <<tailInodes, tailPath, tailOps, currentPos, statSize>>
    /\ UNCHANGED <<trackerVars, retryVars, lifeVars, dlqVars, loadVars, loggerVars, monitorVars, producerVars>>

\* file = WaitForFile(filename); currentPos = newPos
TailReopenRead ==
    /\ tailPc = "reopenRead"
    /\ tailPath # 0
    /\ tailFile' = tailPath
    /\ currentPos' = newPos
    /\ tailPc' = "stat"
    /\ UNCHANGED <<tailInodes, tailPath, tailOps, statSize, newPos, deliveries>>
    /\ UNCHANGED <<trackerVars, retryVars, lifeVars, dlqVars, loadVars, loggerVars, monitorVars, producerVars>>

InitTail == Init

NextTail ==
    \/ FileCreate
    \/ \E long \in BOOLEAN : FileAppend(long)
    \/ FileTruncate
    \/ FileRemove
    \/ TailOpen
    \/ TailStat
    \/ TailReopenGone
    \/ TailReopenShrunk
    \/ TailRead
    \/ TailReopenRead

SpecTail == InitTail /\ [][NextTail]_vars

-----------------------------------------------------------------------------
(* OrderProducer.ProduceOrder *)

\* what producer.Produce returns: nil when the client takes the message into
\* its queue, an error otherwise (queue full, client closed)
ProduceErrors == {"nil", "queue full"}

\* the message built from the template chosen round-robin and the sequence
OrderMessage(seq) == [Sequence |-> seq, template |-> (seq - 1) % NumTemplates]

\* ProduceOrder counting the order before Produce has answered
ProduceOrderCountsFirst(e) ==
    /\ Len(prodRets) < MaxProduce
    /\ prodQueue' = IF e = "nil" THEN Append(prodQueue, OrderMessage(sequence))
                    ELSE prodQueue
    /\ sequence' = sequence + 1
    /\ prodRets' = Append(prodRets, e)
    /\ UNCHANGED <<trackerVars, retryVars, lifeVars, dlqVars, loadVars, loggerVars, monitorVars, tailVars>>

\* one call of ProduceOrder from Run's loop, Produce returning e: the order
\* is generated and marshalled (orders built from the templates always
\* marshal), and the sequence is incremented after Produce returned nil;
\* an error is wrapped and returned
ProduceOrder(e) ==
    /\ Len(prodRets) < MaxProduce
    /\ IF e = "nil"
       THEN /\ prodQueue' = Append(prodQueue, OrderMessage(sequence))
            /\ sequence' = sequence + 1
       ELSE UNCHANGED <<prodQueue, sequence>>
    /\ prodRets' = Append(prodRets, e)
    /\ UNCHANGED <<trackerVars, retryVars, lifeVars, dlqVars, loadVars, loggerVars, monitorVars, tailVars>>

InitProducer == Init

NextProducer == \E e \in ProduceErrors : ProduceOrder(e)

SpecProducer == InitProducer /\ [][NextProducer]_vars

-----------------------------------------------------------------------------
(* cmd/tracker main: New, Initialize, go Run, Stop on a signal, Close *)

\* Logger.Close on a logger field: nothing for a nil logger
LoggerClose(file) == IF file = "none" THEN "none" ELSE "closed"

\* Tracker.Close: the consumer and both loggers, each if not nil
TrackerClose(rc, lf, ef) ==
    [rawConsumer |-> IF rc = "nil" THEN "nil" ELSE "closed",
     logFile     |-> LoggerClose(lf),
     eventFile   |-> LoggerClose(ef)]

\* trk := tracker.New(config): nothing is open, nothing runs
InitLifecycle ==
    /\ running = FALSE
    /\ stopChan = "open"
    /\ panicked = FALSE
    /\ runPc = "unspawned"
    /\ consecutiveErrors = 0
    /\ err = NoErr
    /\ msg = NoMsg
    /\ metrics = [MessagesReceived |-> 0, MessagesProcessed |-> 0, MessagesFailed |-> 0]
    /\ eventLog = <<>>
    /\ logLog = <<>>
    /\ nextOffset = [p \in Partitions |-> 0]
    /\ events = 0
    /\ stopPc = "nocall"
    /\ tickPc = "none"
    /\ tickRate = <<0, 0>>
    /\ tickSeen = [received |-> 0, processed |-> 0]
    /\ logFile = "none"
    /\ eventFile = "none"
    /\ rawConsumer = "nil"
    /\ mainPc = "logLogger"
    /\ initErr = "nil"
    /\ RetryIdle /\ DlqNone /\ PeersIdle /\ LoadNone

\* Initialize: t.logLogger, err = NewLogger(t.config.LogFile)
InitLogLogger(ok) ==
    /\ mainPc = "logLogger"
    /\ IF ok
       THEN /\ logFile' = "open"
            /\ mainPc' = "eventLogger"
            /\ UNCHANGED initErr
       ELSE /\ initErr' = "impossible d'initialiser le logger systeme"
            /\ mainPc' = "fatal"
            /\ UNCHANGED logFile
    /\ UNCHANGED <<eventFile, rawConsumer>>
    /\ UNCHANGED <<trackerVars, retryVars, dlqVars, loadVars, peerVars>>

\* Initialize returning from a failed NewLogger(EventsFile) without closing
\* the health logger
InitEventLoggerNoClose(ok) ==
    /\ mainPc = "eventLogger"
    /\ IF ok
       THEN /\ eventFile' = "open"
            /\ logLog' = Encode(logFile, logLog,
                                <<Log("INFO", "Systeme de journalisation initialise", "", <<>>)>>)
            /\ mainPc' = "consumer"
            /\ UNCHANGED <<logFile, initErr>>
       ELSE /\ initErr' = "impossible d'initialiser le logger d'evenements"
            /\ mainPc' = "fatal"
            /\ UNCHANGED <<logFile, eventFile, logLog>>
    /\ UNCHANGED rawConsumer
    /\ UNCHANGED <<running, stopChan, panicked, runPc, consecutiveErrors, err, msg,
                   metrics, eventLog, nextOffset, events, stopPc, tickPc, tickRate, tickSeen>>
    /\ UNCHANGED <<retryVars, dlqVars, loadVars, peerVars>>

\* Initialize: t.eventLogger, err = NewLogger(t.config.EventsFile), then the
\* first INFO line
InitEventLogger(ok) ==
    /\ mainPc = "eventLogger"
    /\ IF ok
       THEN /\ eventFile' = "open"
            /\ logLog' = Encode(logFile, logLog,
                                <<Log("INFO", "Systeme de journalisation initialise", "", <<>>)>>)
            /\ mainPc' = "consumer"
            /\ UNCHANGED <<logFile, initErr>>
       ELSE /\ logFile' = LoggerClose(logFile)
            /\ initErr' = "impossible d'initialiser le logger d'evenements"
            /\ mainPc' = "fatal"
            /\ UNCHANGED <<eventFile, logLog>>
    /\ UNCHANGED rawConsumer
    /\ UNCHANGED <<running, stopChan, panicked, runPc, consecutiveErrors, err, msg,
                   metrics, eventLog, nextOffset, events, stopPc, tickPc, tickRate, tickSeen>>
    /\ UNCHANGED <<retryVars, dlqVars, loadVars, peerVars>>

\* Initialize: t.rawConsumer, err = kafka.NewConsumer(...)
InitConsumer(ok) ==
    /\ mainPc = "consumer"
    /\ IF ok
       THEN /\ rawConsumer' = "open"
            /\ mainPc' = "subscribe"
            /\ UNCHANGED <<logFile, eventFile, initErr, logLog>>
       ELSE /\ logLog' = Encode(logFile, logLog,
                                <<LogEntry("ERROR", "Erreur lors de la creation du consommateur",
                                           <<"NewConsumer", "failed">>, "", <<>>)>>)
            /\ LET c == TrackerClose(rawConsumer, logFile, eventFile)
               IN  /\ rawConsumer' = c.rawConsumer
                   /\ logFile' = c.logFile
                   /\ eventFile' = c.eventFile
            /\ initErr' = "impossible de creer le consommateur Kafka"
            /\ mainPc' = "fatal"
    /\ UNCHANGED <<running, stopChan, panicked, runPc, consecutiveErrors, err, msg,
                   metrics, eventLog, nextOffset, events, stopPc, tickPc, tickRate, tickSeen>>
    /\ UNCHANGED <<retryVars, dlqVars, loadVars, peerVars>>

\* Initialize: t.consumer.SubscribeTopics(...), then the second INFO line
InitSubscribe(ok) ==
    /\ mainPc = "subscribe"
    /\ IF ok
       THEN /\ logLog' = Encode(logFile, logLog,
                                <<Log("INFO", "Consommateur demarre et abonne au sujet", "", <<>>)>>)
            /\ mainPc' = "spawn"
            /\ UNCHANGED <<logFile, eventFile, rawConsumer, initErr>>
       ELSE /\ logLog' = Encode(logFile, logLog,
                                <<LogEntry("ERROR", "Erreur lors de l'abonnement au sujet",
                                           <<"Subscribe", "failed">>, "", <<>>)>>)
            /\ LET c == TrackerClose(rawConsumer, logFile, eventFile)
               IN  /\ rawConsumer' = c.rawConsumer
                   /\ logFile' = c.logFile
                   /\ eventFile' = c.eventFile
            /\ initErr' = "impossible de s'abonner au sujet"
            /\ mainPc' = "fatal"
    /\ UNCHANGED <<running, stopChan, panicked, runPc, consecutiveErrors, err, msg,
                   metrics, eventLog, nextOffset, events, stopPc, tickPc, tickRate, tickSeen>>
    /\ UNCHANGED <<retryVars, dlqVars, loadVars, peerVars>>

\* main: go func() { trk.Run(); close(done) }(), then <-sigchan
MainSpawn ==
    /\ mainPc = "spawn"
    /\ runPc' = "start"
    /\ stopPc' = "idle"
    /\ mainPc' = "wait"
    /\ UNCHANGED <<running, stopChan, panicked, consecutiveErrors, err, msg, metrics,
                   eventLog, logLog, nextOffset, events, tickPc, tickRate, tickSeen>>
    /\ UNCHANGED <<logFile, eventFile, rawConsumer, initErr>>
    /\ UNCHANGED <<retryVars, dlqVars, loadVars, peerVars>>

\* main: a signal arrives and main calls trk.Stop(), once
MainStop ==
    /\ mainPc = "wait"
    /\ stopChan = "open"
    /\ StopFlag

\* main: Stop has returned and <-done receives: Run has returned
MainJoin ==
    /\ mainPc = "wait"
    /\ ~panicked
    /\ stopChan = "closed"
    /\ stopPc = "idle"
    /\ runPc = "returned"
    /\ mainPc' = "close"
    /\ UNCHANGED <<logFile, eventFile, rawConsumer, initErr>>
    /\ UNCHANGED <<trackerVars, retryVars, dlqVars, loadVars, peerVars>>

\* main returns: the deferred trk.Close()
MainClose ==
    /\ mainPc = "close"
    /\ LET c == TrackerClose(rawConsumer, logFile, eventFile)
       IN  /\ rawConsumer' = c.rawConsumer
           /\ logFile' = c.logFile
           /\ eventFile' = c.eventFile
    /\ mainPc' = "exit"
    /\ UNCHANGED initErr
    /\ UNCHANGED <<trackerVars, retryVars, dlqVars, loadVars, peerVars>>

NextLifecycle ==
    \/ \E ok \in BOOLEAN : InitLogLogger(ok)
    \/ \E ok \in BOOLEAN : InitEventLogger(ok)
    \/ \E ok \in BOOLEAN : InitConsumer(ok)
    \/ \E ok \in BOOLEAN : InitSubscribe(ok)
    \/ MainSpawn
    \/ MainStop
    \/ MainJoin
    \/ MainClose
    \/ RunStart
    \/ LoopHead
    \/ \E p \in Partitions, v \in Payloads : ReadMsg(p, v)
    \/ \E e \in ReadErrors : ReadErr(e)
    \/ ReadTimeout
    \/ HandleError
    \/ ProcessAudit
    \/ ProcessMetrics
    \/ ProcessAfter
    \/ TickSnapshot
    \/ TickReadReceived
    \/ TickReadProcessed
    \/ TickLog
    \/ TickStop
    \/ StopClose
    \/ StopLog

SpecLifecycle == InitLifecycle /\ [][NextLifecycle]_vars

\* the steps main takes by itself; the signal that makes it call Stop comes
\* from outside the process
MainStep ==
    \/ \E ok \in BOOLEAN : InitLogLogger(ok)
    \/ \E ok \in BOOLEAN : InitEventLogger(ok)
    \/ \E ok \in BOOLEAN : InitConsumer(ok)
    \/ \E ok \in BOOLEAN : InitSubscribe(ok)
    \/ MainSpawn
    \/ MainJoin
    \/ MainClose

\* the Go scheduler keeps running main, the Run goroutine and a Stop under
\* way; no signal has to arrive
SpecLifecycleFair ==
    SpecLifecycle /\ WF_vars(MainStep) /\ WF_vars(RunStep)
                  /\ WF_vars(StopClose \/ StopLog)

-----------------------------------------------------------------------------
(* retry.Do and retry.DoWithCallback *)

\* error values: nil, the context's error, and what fn returns (the n-th
\* invocation returns an error of its own)
NilErr == [kind |-> "nil", n |-> 0]
CtxErr == [kind |-> "context.Canceled", n |-> 0]

\* fn returns nil, a plain error, Permanent(err), or an error wrapping one
Outcomes == {"nil", "plain", "permanent", "wrapsPermanent"}

\* IsPermanent by a type assertion on the error itself, without unwrapping
IsPermanentDirect(e) == e.kind = "permanent"

\* IsPermanent: errors.As finds a *PermanentError in the chain
IsPermanent(e) == e.kind \in {"permanent", "wrapsPermanent"}

RECURSIVE Pow(_, _)
Pow(b, n) == IF n <= 0 THEN 1 ELSE b * Pow(b, n - 1)

\* Config values tried: durations in nanoseconds, Multiplier = MultNum/MultDen
InitialDelays == {0, 10, 16}
MaxDelays     == {12, 40}
Multipliers   == {<<1, 1>>, <<3, 2>>, <<2, 1>>}

Configs ==
    {[MaxAttempts |-> m, InitialDelay |-> i, MaxDelay |-> x,
      MultNum |-> q[1], MultDen |-> q[2]] :
        m \in (-1)..MaxAttemptsBound, i \in InitialDelays, x \in MaxDelays,
        q \in Multipliers}

\* calculateDelay without the cap at MaxDelay
calculateDelayNoCap(k, c, j) ==
    (c.InitialDelay * Pow(c.MultNum, k - 1) * (3 * JitterSteps + 2 * j))
        \div (4 * JitterSteps * Pow(c.MultDen, k - 1))

\* calculateDelay with a jitter of +-100%
calculateDelayWideJitter(k, c, j) ==
    LET rawNum == c.InitialDelay * Pow(c.MultNum, k - 1)
        rawDen == Pow(c.MultDen, k - 1)
        capped == rawNum > c.MaxDelay * rawDen
        num    == IF capped THEN c.MaxDelay ELSE rawNum
        den    == IF capped THEN 1 ELSE rawDen
    IN  (num * 2 * j) \div (JitterSteps * den)

\* calculateDelay with rand.Float64() = j/JitterSteps.  The float64 value
\* delay is kept as the exact fraction num/den:
\*   delay  = InitialDelay * Multiplier^(attempt-1), capped at MaxDelay
\*   delay += delay * 0.25 * (rand*2 - 1)
\*   time.Duration(delay) truncates toward zero
calculateDelay(k, c, j) ==
    LET rawNum == c.InitialDelay * Pow(c.MultNum, k - 1)
        rawDen == Pow(c.MultDen, k - 1)
        capped == rawNum > c.MaxDelay * rawDen
        num    == IF capped THEN c.MaxDelay ELSE rawNum
        den    == IF capped THEN 1 ELSE rawDen
    IN  (num * (3 * JitterSteps + 2 * j)) \div (4 * JitterSteps * den)

InitRetry ==
    /\ InitTracker /\ LifeRunning /\ DlqNone /\ PeersIdle /\ LoadNone
    /\ fnKind \in {"Do", "DoWithCallback"}
    /\ cfg \in Configs
    /\ retryPc = "loop"
    /\ attempt = 1
    /\ rets = <<>>
    /\ lastErr = NilErr
    /\ delay = 0
    /\ ctxDone \in BOOLEAN
    /\ cancelledAt = IF ctxDone THEN "before" ELSE "never"
    /\ onRetry = <<>>
    /\ result = [Attempts |-> 0, Err |-> NilErr]

\* the loop condition with < for <=
LoopContinuesStrict(a, c) == a < c.MaxAttempts

\* for attempt := 1; attempt <= cfg.MaxAttempts; attempt++
LoopContinues(a, c) == a <= c.MaxAttempts

\* the wait guard with <= for <
ShouldWaitAlways(a, c) == a <= c.MaxAttempts

\* if attempt < cfg.MaxAttempts { ... wait ... }
ShouldWait(a, c) == a < c.MaxAttempts

\* the cancelled wait returning lastErr instead of ctx.Err()
WaitCancelledErrLast(last) == last

\* Err of the Result returned from the cancelled wait: ctx.Err()
WaitCancelledErr(last) == CtxErr

\* return Result{Attempts: n, Err: e}
Return(n, e) ==
    /\ result' = [Attempts |-> n, Err |-> e]
    /\ retryPc' = "done"

\* the loop head without the select on ctx.Done()
RetryLoopNoSelect ==
    /\ retryPc = "loop"
    /\ IF ~LoopContinues(attempt, cfg)
       THEN Return(cfg.MaxAttempts, lastErr)
       ELSE /\ retryPc' = "call"
            /\ UNCHANGED result
    /\ UNCHANGED <<fnKind, cfg, attempt, rets, lastErr, delay, ctxDone,
                   cancelledAt, onRetry>>
    /\ UNCHANGED <<trackerVars, lifeVars, dlqVars, loadVars, peerVars>>

\* the loop condition, then the non-blocking select on ctx.Done()
RetryLoop ==
    /\ retryPc = "loop"
    /\ IF ~LoopContinues(attempt, cfg)
       THEN Return(cfg.MaxAttempts, lastErr)
       ELSE IF ctxDone
       THEN Return(attempt, CtxErr)
       ELSE /\ retryPc' = "call"
            /\ UNCHANGED result
    /\ UNCHANGED <<fnKind, cfg, attempt, rets, lastErr, delay, ctxDone,
                   cancelledAt, onRetry>>
    /\ UNCHANGED <<trackerVars, lifeVars, dlqVars, loadVars, peerVars>>

\* the loop body calling onRetry after the wait's delay is computed only
\* from the second failed attempt on
RetryCallLateNotify(o, j) ==
    /\ retryPc = "call"
    /\ LET e == [kind |-> o, n |-> Len(rets) + 1]
       IN  /\ rets' = Append(rets, e)
           /\ IF o = "nil"
              THEN /\ Return(attempt, NilErr)
                   /\ UNCHANGED <<lastErr, attempt, delay, onRetry>>
              ELSE /\ lastErr' = e
                   /\ IF IsPermanent(e)
                      THEN /\ Return(attempt, e)
                           /\ UNCHANGED <<attempt, delay, onRetry>>
                      ELSE IF ShouldWait(attempt, cfg)
                      THEN /\ delay' = calculateDelay(attempt, cfg, j)
                           /\ onRetry' = IF fnKind = "DoWithCallback" /\ attempt > 1
                                         THEN Append(onRetry, <<attempt, e, delay'>>)
                                         ELSE onRetry
                           /\ retryPc' = "wait"
                           /\ UNCHANGED <<attempt, result>>
                      ELSE /\ attempt' = attempt + 1
                           /\ retryPc' = "loop"
                           /\ UNCHANGED <<delay, onRetry, result>>
    /\ UNCHANGED <<fnKind, cfg, ctxDone, cancelledAt>>
    /\ UNCHANGED <<trackerVars, lifeVars, dlqVars, loadVars, peerVars>>

\* err := fn() returning o, and the rest of the loop body up to the wait;
\* DoWithCallback (with a non-nil onRetry) also calls onRetry(attempt, err, delay)
RetryCall(o, j) ==
    /\ retryPc = "call"
    /\ LET e == [kind |-> o, n |-> Len(rets) + 1]
       IN  /\ rets' = Append(rets, e)
           /\ IF o = "nil"
              THEN /\ Return(attempt, NilErr)
                   /\ UNCHANGED <<lastErr, attempt, delay, onRetry>>
              ELSE /\ lastErr' = e
                   /\ IF IsPermanent(e)
                      THEN /\ Return(attempt, e)
                           /\ UNCHANGED <<attempt, delay, onRetry>>
                      ELSE IF ShouldWait(attempt, cfg)
                      THEN /\ delay' = calculateDelay(attempt, cfg, j)
                           /\ onRetry' = IF fnKind = "DoWithCallback"
                                         THEN Append(onRetry, <<attempt, e, delay'>>)
                                         ELSE onRetry
                           /\ retryPc' = "wait"
                           /\ UNCHANGED <<attempt, result>>
                      ELSE /\ attempt' = attempt + 1
                           /\ retryPc' = "loop"
                           /\ UNCHANGED <<delay, onRetry, result>>
    /\ UNCHANGED <<fnKind, cfg, ctxDone, cancelledAt>>
    /\ UNCHANGED <<trackerVars, lifeVars, dlqVars, loadVars, peerVars>>

\* case <-time.After(delay): the next iteration
WaitElapsed ==
    /\ retryPc = "wait"
    /\ attempt' = attempt + 1
    /\ retryPc' = "loop"
    /\ UNCHANGED <<fnKind, cfg, rets, lastErr, delay, ctxDone, cancelledAt,
                   onRetry, result>>
    /\ UNCHANGED <<trackerVars, lifeVars, dlqVars, loadVars, peerVars>>

\* case <-ctx.Done(): return with ctx.Err()
WaitCancelled ==
    /\ retryPc = "wait"
    /\ ctxDone
    /\ Return(attempt, WaitCancelledErr(lastErr))
    /\ UNCHANGED <<fnKind, cfg, attempt, rets, lastErr, delay, ctxDone,
                   cancelledAt, onRetry>>
    /\ UNCHANGED <<trackerVars, lifeVars, dlqVars, loadVars, peerVars>>

\* the caller's context is cancelled while Do runs
Cancel ==
    /\ retryPc \in {"loop", "call", "wait"}
    /\ ~ctxDone
    /\ ctxDone' = TRUE
    /\ cancelledAt' = retryPc
    /\ UNCHANGED <<fnKind, cfg, retryPc, attempt, rets, lastErr, delay,
                   onRetry, result>>
    /\ UNCHANGED <<trackerVars, lifeVars, dlqVars, loadVars, peerVars>>

NextRetry ==
    \/ RetryLoop
    \/ \E o \in Outcomes, j \in 0..(JitterSteps - 1) : RetryCall(o, j)
    \/ WaitElapsed
    \/ WaitCancelled
    \/ Cancel

SpecRetry == InitRetry /\ [][NextRetry]_vars

-----------------------------------------------------------------------------
(* retry.DeadLetterQueue *)

\* fmt.Sprintf("%d", n) for n >= 0, as the sequence of its decimal digits
RECURSIVE Itoa(_)
Itoa(n) ==
    IF n < 10 THEN <<n>> ELSE Append(Itoa(n \div 10), n % 10)

\* json.Marshal accepts a json.RawMessage only when it holds valid JSON
ValidJSON(value) == value # "malformed"

\* the messages handed to Send, the attempt counts and the last error
DlqMsgs ==
    {[partition |-> 0, offset |-> o, value |-> v] :
        o \in 0..1, v \in {"invalid", "malformed"}}
DlqAttempts == {1, 3}
DlqLastErr == "handler failed"

\* the FailedMessage built by Send
FailedMessage(m, attempts, lastError) ==
    [original_partition |-> m.partition,
     original_offset    |-> m.offset,
     attempts           |-> attempts,
     last_error         |-> lastError,
     payload            |-> m.value]

\* the kafka.Message given to producer.Produce: the envelope and its headers
DlqMessage(m, attempts, lastError) ==
    [value   |-> FailedMessage(m, attempts, lastError),
     headers |-> [error |-> lastError, attempts |-> Itoa(attempts)]]

\* DeadLetterQueue.GetStats
GetStats == dlqStats

InitDLQ == InitTracker /\ RetryIdle /\ LifeRunning /\ DlqNone /\ PeersIdle /\ LoadNone

\* NewDeadLetterQueue(broker, topic, enabled); ok: kafka.NewProducer succeeds
NewDeadLetterQueue(enabled, ok) ==
    /\ dlqPc = "new"
    /\ IF ~enabled
       THEN /\ dlqPc' = "ready"
            /\ UNCHANGED <<dlqEnabled, dlqProducer, dlqDrain>>
       ELSE IF ~ok
       THEN /\ dlqPc' = "failed"
            /\ UNCHANGED <<dlqEnabled, dlqProducer, dlqDrain>>
       ELSE /\ dlqPc' = "ready"
            /\ dlqEnabled' = TRUE
            /\ dlqProducer' = "open"
            /\ dlqDrain' = "running"
    /\ UNCHANGED <<dlqQueue, dlqEvents, dlqStats, dlqTopic, dlqCalls>>
    /\ UNCHANGED <<trackerVars, retryVars, lifeVars, loadVars, peerVars>>

\* Send producing even when the queue is disabled
DlqSendNoGuard(m, attempts, ok) ==
    /\ dlqPc = "ready"
    /\ Len(dlqCalls) < MaxSends
    /\ IF ~ValidJSON(m.value)
       THEN /\ dlqCalls' = Append(dlqCalls, [msg |-> m, attempts |-> attempts,
                                             ret |-> "marshal error"])
            /\ UNCHANGED dlqQueue
       ELSE /\ dlqCalls' = Append(dlqCalls, [msg |-> m, attempts |-> attempts,
                                             ret |-> "nil"])
            /\ dlqQueue' = IF ok
                           THEN Append(dlqQueue, DlqMessage(m, attempts, DlqLastErr))
                           ELSE dlqQueue
    /\ UNCHANGED <<dlqPc, dlqEnabled, dlqProducer, dlqDrain, dlqEvents, dlqStats,
                   dlqTopic>>
    /\ UNCHANGED <<trackerVars, retryVars, lifeVars, loadVars, peerVars>>

\* DeadLetterQueue.Send(originalMsg, attempts, lastErr); ok: producer.Produce
\* accepts the message (its error, e.g. a full queue, is discarded)
DlqSend(m, attempts, ok) ==
    /\ dlqPc = "ready"
    /\ Len(dlqCalls) < MaxSends
    /\ IF ~dlqEnabled
       THEN /\ dlqCalls' = Append(dlqCalls, [msg |-> m, attempts |-> attempts,
                                             ret |-> "nil"])
            /\ UNCHANGED dlqQueue
       ELSE IF ~ValidJSON(m.value)
       THEN /\ dlqCalls' = Append(dlqCalls, [msg |-> m, attempts |-> attempts,
                                             ret |-> "marshal error"])
            /\ UNCHANGED dlqQueue
       ELSE /\ dlqCalls' = Append(dlqCalls, [msg |-> m, attempts |-> attempts,
                                             ret |-> "nil"])
            /\ dlqQueue' = IF ok
                           THEN Append(dlqQueue, DlqMessage(m, attempts, DlqLastErr))
                           ELSE dlqQueue
    /\ UNCHANGED <<dlqPc, dlqEnabled, dlqProducer, dlqDrain, dlqEvents, dlqStats,
                   dlqTopic>>
    /\ UNCHANGED <<trackerVars, retryVars, lifeVars, loadVars, peerVars>>

\* the producer delivers (ok) or fails to deliver the oldest queued message
\* and emits its delivery report on Events()
DlqDeliver(ok) ==
    /\ dlqProducer = "open"
    /\ dlqQueue # <<>>
    /\ dlqQueue' = Tail(dlqQueue)
    /\ dlqTopic' = IF ok THEN Append(dlqTopic, Head(dlqQueue)) ELSE dlqTopic
    /\ dlqEvents' = Append(dlqEvents, [type |-> "message", failed |-> ~ok])
    /\ UNCHANGED <<dlqPc, dlqEnabled, dlqProducer, dlqDrain, dlqStats, dlqCalls>>
    /\ UNCHANGED <<trackerVars, retryVars, lifeVars, loadVars, peerVars>>

\* the producer emits an event that is not a delivery report (a kafka.Error)
DlqErrorEvent ==
    /\ dlqProducer = "open"
    /\ dlqEvents = <<>>
    /\ dlqEvents' = <<[type |-> "error", failed |-> TRUE]>>
    /\ UNCHANGED <<dlqPc, dlqEnabled, dlqProducer, dlqDrain, dlqQueue, dlqStats,
                   dlqTopic, dlqCalls>>
    /\ UNCHANGED <<trackerVars, retryVars, lifeVars, loadVars, peerVars>>

\* handleDeliveryReports counting every event, delivery report or not
DlqDrainCountsAll ==
    /\ dlqDrain = "running"
    /\ dlqEvents # <<>>
    /\ dlqEvents' = Tail(dlqEvents)
    /\ LET ev == Head(dlqEvents)
       IN  dlqStats' =
              IF ev.failed
              THEN [dlqStats EXCEPT !.SendErrors = @ + 1]
              ELSE [dlqStats EXCEPT !.MessagesSent = @ + 1]
    /\ UNCHANGED <<dlqPc, dlqEnabled, dlqProducer, dlqDrain, dlqQueue, dlqTopic,
                   dlqCalls>>
    /\ UNCHANGED <<trackerVars, retryVars, lifeVars, loadVars, peerVars>>

\* handleDeliveryReports: one iteration of  for e := range d.producer.Events()
DlqDrain ==
    /\ dlqDrain = "running"
    /\ dlqEvents # <<>>
    /\ dlqEvents' = Tail(dlqEvents)
    /\ LET ev == Head(dlqEvents)
       IN  dlqStats' =
              IF ev.type # "message" THEN dlqStats
              ELSE IF ev.failed
              THEN [dlqStats EXCEPT !.SendErrors = @ + 1]
              ELSE [dlqStats EXCEPT !.MessagesSent = @ + 1]
    /\ UNCHANGED <<dlqPc, dlqEnabled, dlqProducer, dlqDrain, dlqQueue, dlqTopic,
                   dlqCalls>>
    /\ UNCHANGED <<trackerVars, retryVars, lifeVars, loadVars, peerVars>>

\* handleDeliveryReports returns when Events() is closed and drained
DlqDrainEnd ==
    /\ dlqDrain = "running"
    /\ dlqProducer = "closed"
    /\ dlqEvents = <<>>
    /\ dlqDrain' = "done"
    /\ UNCHANGED <<dlqPc, dlqEnabled, dlqProducer, dlqQueue, dlqEvents, dlqStats,
                   dlqTopic, dlqCalls>>
    /\ UNCHANGED <<trackerVars, retryVars, lifeVars, loadVars, peerVars>>

\* DeadLetterQueue.Close: Flush(5000) has let the producer deliver what it
\* could (the DlqDeliver steps before this one); what is still queued when
\* the flush times out is dropped by producer.Close
DlqClose ==
    /\ dlqPc = "ready"
    /\ dlqPc' = "closed"
    /\ IF dlqProducer # "nil"
       THEN /\ dlqProducer' = "closed"
            /\ dlqQueue' = <<>>
       ELSE UNCHANGED <<dlqProducer, dlqQueue>>
    /\ UNCHANGED <<dlqEnabled, dlqDrain, dlqEvents, dlqStats, dlqTopic, dlqCalls>>
    /\ UNCHANGED <<trackerVars, retryVars, lifeVars, loadVars, peerVars>>

NextDLQ ==
    \/ \E enabled \in BOOLEAN, ok \in BOOLEAN : NewDeadLetterQueue(enabled, ok)
    \/ \E m \in DlqMsgs, a \in DlqAttempts, ok \in BOOLEAN : DlqSend(m, a, ok)
    \/ \E ok \in BOOLEAN : DlqDeliver(ok)
    \/ DlqErrorEvent
    \/ DlqDrain
    \/ DlqDrainEnd
    \/ DlqClose

SpecDLQ == InitDLQ /\ [][NextDLQ]_vars

-----------------------------------------------------------------------------
(* config.Load.  Strings are sequences of characters. *)

\* the configuration keys modelled: a string key, an integer key and a
\* boolean key that have an environment variable, and an integer key that
\* has none
ConfigKeys == {"kafka.topic", "retry.max_attempts", "dlq.enabled",
               "tracker.read_timeout_ms"}

\* DefaultConfig()
DefaultConfig ==
    [k \in ConfigKeys |->
        CASE k = "kafka.topic"             -> <<"o", "r", "d", "e", "r", "s">>
          [] k = "retry.max_attempts"      -> 3
          [] k = "dlq.enabled"             -> TRUE
          [] k = "tracker.read_timeout_ms" -> 1000]

\* the variables loadFromEnv reads for these keys
EnvVars == {"KAFKA_TOPIC", "RETRY_MAX_ATTEMPTS", "DLQ_ENABLED"}

Unset == [set |-> FALSE, value |-> <<>>]
SetTo(v) == [set |-> TRUE, value |-> v]

\* the environments tried
EnvTexts ==
    [KAFKA_TOPIC        |-> {<<>>, <<"e", "n", "v">>},
     RETRY_MAX_ATTEMPTS |-> {<<>>, <<"5">>, <<"1", "0">>, <<"5", "x">>, <<"-", "1">>},
     DLQ_ENABLED        |-> {<<>>, <<"t", "r", "u", "e">>, <<"1">>,
                             <<"f", "a", "l", "s", "e">>, <<"y", "e", "s">>}]
Envs ==
    {[KAFKA_TOPIC |-> a, RETRY_MAX_ATTEMPTS |-> b, DLQ_ENABLED |-> c] :
        a \in {Unset} \cup {SetTo(v) : v \in EnvTexts.KAFKA_TOPIC},
        b \in {Unset} \cup {SetTo(v) : v \in EnvTexts.RETRY_MAX_ATTEMPTS},
        c \in {Unset} \cup {SetTo(v) : v \in EnvTexts.DLQ_ENABLED}}

\* a key the file does not hold, and a key it sets to v
Absent(k) == [present |-> FALSE, value |-> DefaultConfig[k]]
Present(v) == [present |-> TRUE, value |-> v]

\* the files tried: no path given, a path to no file, a file that is not
\* YAML, and files that set any subset of the keys
YamlValues ==
    [k \in ConfigKeys |->
        CASE k = "kafka.topic"             -> {<<"y", "m", "l">>}
          [] k = "retry.max_attempts"      -> {7}
          [] k = "dlq.enabled"             -> {TRUE, FALSE}
          [] k = "tracker.read_timeout_ms" -> {500}]
YamlEntries(k) == {Absent(k)} \cup {Present(v) : v \in YamlValues[k]}
YamlFiles ==
    {[state |-> st, keys |-> [k \in ConfigKeys |-> Absent(k)]] :
        st \in {"nopath", "missing", "invalid"}}
    \cup
    {[state |-> "ok",
      keys  |-> [k \in ConfigKeys |->
                   CASE k = "kafka.topic"             -> a
                     [] k = "retry.max_attempts"      -> b
                     [] k = "dlq.enabled"             -> c
                     [] k = "tracker.read_timeout_ms" -> d]] :
        a \in YamlEntries("kafka.topic"),
        b \in YamlEntries("retry.max_attempts"),
        c \in YamlEntries("dlq.enabled"),
        d \in YamlEntries("tracker.read_timeout_ms")}

\* os.Getenv: the value, or "" when the variable is not set
Getenv(e, x) == IF e[x].set THEN e[x].value ELSE <<>>

DigitValue ==
    [c \in {"0", "1", "2", "3", "4", "5", "6", "7", "8", "9"} |->
        CASE c = "0" -> 0 [] c = "1" -> 1 [] c = "2" -> 2 [] c = "3" -> 3
          [] c = "4" -> 4 [] c = "5" -> 5 [] c = "6" -> 6 [] c = "7" -> 7
          [] c = "8" -> 8 [] c = "9" -> 9]

RECURSIVE Digits(_)
Digits(t) ==
    IF t = <<>> THEN 0
    ELSE 10 * Digits(SubSeq(t, 1, Len(t) - 1)) + DigitValue[t[Len(t)]]

\* strconv.Atoi: an optional sign and then one or more decimal digits
Atoi(t) ==
    LET signed == t # <<>> /\ t[1] \in {"+", "-"}
        body   == IF signed THEN Tail(t) ELSE t
        ok     == body # <<>> /\ \A i \in DOMAIN body : body[i] \in DOMAIN DigitValue
    IN  [ok  |-> ok,
         val |-> IF ~ok THEN 0
                 ELSE IF signed /\ t[1] = "-" THEN 0 - Digits(body) ELSE Digits(body)]

\* loadFromYAML on a file that parsed: yaml.Unmarshal(data, cfg) sets the
\* fields whose keys the file holds
loadFromYAML(c, y) ==
    [k \in ConfigKeys |-> IF y.keys[k].present THEN y.keys[k].value ELSE c[k]]

\* loadFromEnv
loadFromEnv(c, e) ==
    [k \in ConfigKeys |->
        CASE k = "kafka.topic" ->
               IF Getenv(e, "KAFKA_TOPIC") # <<>> THEN Getenv(e, "KAFKA_TOPIC") ELSE c[k]
          [] k = "retry.max_attempts" ->
               IF Getenv(e, "RETRY_MAX_ATTEMPTS") # <<>>
                  /\ Atoi(Getenv(e, "RETRY_MAX_ATTEMPTS")).ok
               THEN Atoi(Getenv(e, "RETRY_MAX_ATTEMPTS")).val ELSE c[k]
          [] k = "dlq.enabled" ->
               IF Getenv(e, "DLQ_ENABLED") # <<>>
               THEN Getenv(e, "DLQ_ENABLED") \in {<<"t", "r", "u", "e">>, <<"1">>}
               ELSE c[k]
          [] k = "tracker.read_timeout_ms" -> c[k]]

\* Load with the file applied over the environment
LoadEnvFirst(y, e) ==
    IF y.state = "invalid"
    THEN [err |-> "erreur lors du chargement du fichier de config", cfg |-> DefaultConfig]
    ELSE [err |-> "nil",
          cfg |-> IF y.state = "ok"
                  THEN loadFromYAML(loadFromEnv(DefaultConfig, e), y)
                  ELSE loadFromEnv(DefaultConfig, e)]

\* Load(configPath): a missing file is accepted, any other failure of
\* loadFromYAML is returned; then the environment is applied
Load(y, e) ==
    IF y.state = "invalid"
    THEN [err |-> "erreur lors du chargement du fichier de config", cfg |-> DefaultConfig]
    ELSE [err |-> "nil",
          cfg |-> loadFromEnv(IF y.state = "ok" THEN loadFromYAML(DefaultConfig, y)
                                                ELSE DefaultConfig, e)]

InitLoad ==
    /\ InitTracker /\ RetryIdle /\ LifeRunning /\ DlqNone /\ PeersIdle
    /\ env \in Envs
    /\ yaml \in YamlFiles
    /\ loaded = <<>>

\* cfg, err := config.Load(configPath)
LoadCall ==
    /\ loaded = <<>>
    /\ env # <<>>
    /\ loaded' = Load(yaml, env)
    /\ UNCHANGED <<env, yaml>>
    /\ UNCHANGED <<trackerVars, retryVars, lifeVars, dlqVars, peerVars>>

NextLoad == LoadCall

SpecLoad == InitLoad /\ [][NextLoad]_vars

-----------------------------------------------------------------------------
(* Properties of the tracker binary, checked under SpecLifecycle *)

\* a resource that is not held: never opened, or closed again
Released(r) == r \in {"none", "nil", "closed"}

\* C20: Initialize returns an error exactly when one of its four steps
\* failed, and when it has returned an error the health file, the audit file
\* and the broker consumer are each either never opened or closed; when it
\* has returned nil all three are open until Close.
InitializeFailureReleases ==
    /\ (mainPc = "fatal") = (initErr # "nil")
    /\ mainPc = "fatal" =>
          Released(logFile) /\ Released(eventFile) /\ Released(rawConsumer)
    /\ mainPc \in {"spawn", "wait", "close"} =>
          logFile = "open" /\ eventFile = "open" /\ rawConsumer = "open"

\* Stop has written running = false
Stopped == stopPc \in {"close", "log"} \/ stopChan = "closed"

\* the consumer's lifecycle state: 0 Uninitialized, 1 Initialized, 2 Running,
\* 3 Stopping, 4 Closed
LifecycleState ==
    IF mainPc \in {"exit", "fatal"} THEN 4
    ELSE IF running THEN 2
    ELSE IF Stopped THEN 3
    ELSE IF mainPc \in {"spawn", "wait"} THEN 1
    ELSE 0

\* C29: no step takes the consumer back to an earlier lifecycle state; in
\* particular once Stop has taken it out of Running nothing makes it Running
\* again.
LifecycleForward == [][LifecycleState' >= LifecycleState]_vars

\* C30 (checked under SpecLifecycleFair): when Run has returned without Stop
\* having been called (the consecutive-error threshold was reached), main
\* goes on to Close and the process exits, no signal being needed.
ThresholdExitIsClean ==
    (runPc = "returned" /\ ~Stopped) ~> (mainPc = "exit")

\* a step in which a task calls Log or LogError of the health logger
HealthWrite ==
    \/ tickPc = "log" /\ tickPc' # "log"
    \/ stopPc = "log" /\ stopPc' # "log"
    \/ runPc = "handle" /\ runPc' # "handle"
          /\ handleKafkaError(err, consecutiveErrors).logs # <<>>
    \/ runPc = "after" /\ runPc' # "after" /\ Unmarshal(msg.value) # "nil"

\* a step in which the read loop calls LogEvent of the audit logger
AuditWrite == runPc = "audit" /\ runPc' # "audit"

\* C31: no task calls a write operation of a logger whose file has been
\* closed.
NoWriteAfterClose ==
    [][ /\ HealthWrite => logFile # "closed"
        /\ AuditWrite => eventFile # "closed" ]_vars

\* C20 witness: the subscription failed after both files and the consumer
\* had been opened; all three are closed and the ERROR line was written
InitializeFailureReleasesWitness ==
    /\ mainPc = "fatal"
    /\ initErr = "impossible de s'abonner au sujet"
    /\ logFile = "closed" /\ eventFile = "closed" /\ rawConsumer = "closed"
    /\ Len(logLog) = 2

-----------------------------------------------------------------------------
(* Properties of config.Load, checked under SpecLoad *)

\* the environment variable of a key ("" for a key that has none)
EnvVarOf(k) ==
    CASE k = "kafka.topic"             -> "KAFKA_TOPIC"
      [] k = "retry.max_attempts"      -> "RETRY_MAX_ATTEMPTS"
      [] k = "dlq.enabled"             -> "DLQ_ENABLED"
      [] k = "tracker.read_timeout_ms" -> ""

\* value v of key k is the value the text t denotes: the text itself, the
\* integer it spells, or the truth value ("true" and "1" are true)
IsValueOf(k, v, t) ==
    CASE k = "kafka.topic"             -> v = t
      [] k = "retry.max_attempts"      -> Atoi(t).ok /\ v = Atoi(t).val
      [] k = "dlq.enabled"             -> v = (t \in {<<"t", "r", "u", "e">>, <<"1">>})
      [] k = "tracker.read_timeout_ms" -> FALSE

\* the file's value of key k if the file holds the key, the default otherwise
FileOrDefault(k) ==
    IF yaml.state = "ok" /\ yaml.keys[k].present
    THEN yaml.keys[k].value ELSE DefaultConfig[k]

\* Load has returned a configuration
Loaded == loaded # <<>> /\ loaded.err = "nil"

\* C19 as claimed: the value of each key is the environment variable's value
\* if the variable is set, else the file's value if the file holds the key,
\* else the default.
PrecedenceEnvIfSet ==
    Loaded =>
        \A k \in ConfigKeys :
            IF EnvVarOf(k) # "" /\ env[EnvVarOf(k)].set
            THEN IsValueOf(k, loaded.cfg[k], env[EnvVarOf(k)].value)
            ELSE loaded.cfg[k] = FileOrDefault(k)

\* the variable of key k is set to a value loadFromEnv uses: not empty and,
\* for an integer key, the spelling of an integer
EnvUsable(k) ==
    /\ EnvVarOf(k) # ""
    /\ env[EnvVarOf(k)].set
    /\ env[EnvVarOf(k)].value # <<>>
    /\ k = "retry.max_attempts" => Atoi(env[EnvVarOf(k)].value).ok

\* C19 amended: the value of each key is the environment variable's value if
\* the variable is set to a non-empty text (that spells an integer, for an
\* integer key), else the file's value if the file holds the key, else the
\* default.
PrecedenceEnvIfUsable ==
    Loaded =>
        \A k \in ConfigKeys :
            IF EnvUsable(k)
            THEN IsValueOf(k, loaded.cfg[k], env[EnvVarOf(k)].value)
            ELSE loaded.cfg[k] = FileOrDefault(k)

\* C19 witness: the topic comes from the environment although the file sets
\* it, the attempts come from the file because RETRY_MAX_ATTEMPTS is "5x",
\* and dlq.enabled keeps its default
PrecedenceEnvIfUsableWitness ==
    /\ Loaded
    /\ env.KAFKA_TOPIC = SetTo(<<"e", "n", "v">>)
    /\ yaml.state = "ok" /\ yaml.keys["kafka.topic"].present
    /\ loaded.cfg["kafka.topic"] = <<"e", "n", "v">>
    /\ env.RETRY_MAX_ATTEMPTS = SetTo(<<"5", "x">>)
    /\ yaml.keys["retry.max_attempts"].present
    /\ loaded.cfg["retry.max_attempts"] = 7
    /\ ~env.DLQ_ENABLED.set /\ ~yaml.keys["dlq.enabled"].present
    /\ loaded.cfg["dlq.enabled"] = TRUE

-----------------------------------------------------------------------------
(* Properties of the dead-letter queue, checked under SpecDLQ *)

\* C17: a DeadLetterQueue constructed with enabled = false has no producer
\* and no delivery-report goroutine; every Send returns nil and hands nothing
\* to a producer, GetStats returns zero counters, and neither Send nor Close
\* changes anything of the queue.
DisabledIsNoop ==
    /\ []( (dlqPc \in {"ready", "closed"} /\ ~dlqEnabled) =>
             /\ dlqProducer = "nil"
             /\ dlqDrain = "none"
             /\ dlqQueue = <<>> /\ dlqEvents = <<>> /\ dlqTopic = <<>>
             /\ GetStats = [MessagesSent |-> 0, SendErrors |-> 0]
             /\ \A i \in DOMAIN dlqCalls : dlqCalls[i].ret = "nil" )
    /\ [][ (dlqPc = "ready" /\ ~dlqEnabled) =>
             UNCHANGED <<dlqEnabled, dlqProducer, dlqDrain, dlqQueue, dlqEvents,
                         dlqStats, dlqTopic>> ]_vars

\* C17 witness: a disabled queue after two Send calls and Close
DisabledIsNoopWitness ==
    /\ dlqPc = "closed"
    /\ ~dlqEnabled
    /\ Len(dlqCalls) = 2
    /\ dlqCalls[1].msg.value = "invalid"
    /\ dlqCalls[2].msg.value = "malformed"

\* C18: every Send of an enabled queue that did not put its envelope on the
\* DLQ topic (the envelope could not be built, the producer refused it, or
\* the delivery failed) is counted once in SendErrors: when nothing is left
\* in flight, SendErrors = the number of Send calls - the number of
\* envelopes on the topic.
SendFailuresCounted ==
    (dlqEnabled /\ dlqPc = "ready" /\ dlqQueue = <<>> /\ dlqEvents = <<>>) =>
        GetStats.SendErrors = Len(dlqCalls) - Len(dlqTopic)

\* the delivery reports among the events e
Reports(e) == {i \in DOMAIN e : e[i].type = "message"}

\* C33: the step that consumes a delivery report adds 1 to MessagesSent when
\* the report has no error and 1 to SendErrors when it has one, and leaves
\* the other counter; consuming another kind of event, and every other
\* operation, leaves both counters.  So MessagesSent counts the delivered
\* messages whose report has been consumed, and the two counters together
\* never exceed the reports the producer has emitted.
DrainCountsEachReport ==
    /\ [][ IF dlqEvents # <<>> /\ dlqEvents' = Tail(dlqEvents)
              /\ Head(dlqEvents).type = "message"
           THEN IF Head(dlqEvents).failed
                THEN /\ dlqStats'.SendErrors = dlqStats.SendErrors + 1
                     /\ dlqStats'.MessagesSent = dlqStats.MessagesSent
                ELSE /\ dlqStats'.MessagesSent = dlqStats.MessagesSent + 1
                     /\ dlqStats'.SendErrors = dlqStats.SendErrors
           ELSE dlqStats' = dlqStats ]_vars
    /\ [](GetStats.MessagesSent
             + Cardinality({i \in Reports(dlqEvents) : ~dlqEvents[i].failed})
           = Len(dlqTopic))
    /\ [](GetStats.MessagesSent + GetStats.SendErrors
             + Cardinality(Reports(dlqEvents)) + Len(dlqQueue)
           <= Cardinality({i \in DOMAIN dlqCalls : dlqCalls[i].ret = "nil"}))

\* C33 witness: two reports consumed, one of a delivery and one of a failure
DrainCountsEachReportWitness ==
    /\ GetStats = [MessagesSent |-> 1, SendErrors |-> 1]
    /\ dlqEvents = <<>>
    /\ Len(dlqTopic) = 1

-----------------------------------------------------------------------------
(* Properties of the tracker, checked under Spec *)

AuditLines(p, o) ==
    {i \in DOMAIN eventLog :
        eventLog[i].kafka_partition = p /\ eventLog[i].kafka_offset = o}

\* C1: every message the broker delivered has exactly one audit line with its
\* partition and offset (none only while processMessage has not yet reached
\* LogEvent for it), and the metrics never count a message whose audit line is
\* not yet written: the counters are one behind the audit file exactly while
\* recordMetrics is still to run for the current message.
AuditBeforeMetrics ==
    /\ \A p \in Partitions : \A o \in 0..nextOffset[p] :
          Cardinality(AuditLines(p, o)) =
             IF o >= nextOffset[p] THEN 0
             ELSE IF runPc = "audit" /\ msg.partition = p /\ msg.offset = o THEN 0
             ELSE 1
    /\ Len(eventLog) = nextOffset[0] + nextOffset[1] - (IF runPc = "audit" THEN 1 ELSE 0)
    /\ metrics.MessagesReceived = Len(eventLog) - (IF runPc = "metrics" THEN 1 ELSE 0)
    /\ runPc \in {"metrics", "after"} =>
          /\ Len(eventLog) > 0
          /\ eventLog[Len(eventLog)].kafka_partition = msg.partition
          /\ eventLog[Len(eventLog)].kafka_offset = msg.offset

\* C1 witness: a malformed message on partition 1 was audited and then counted,
\* after an earlier message
AuditBeforeMetricsWitness ==
    /\ runPc = "after"
    /\ msg.partition = 1
    /\ msg.value = "malformed"
    /\ Len(eventLog) = 2
    /\ metrics.MessagesReceived = 2

MetricsBalanced ==
    metrics.MessagesReceived = metrics.MessagesProcessed + metrics.MessagesFailed

\* C2: MessagesReceived = MessagesProcessed + MessagesFailed in every state;
\* every change of the metrics block adds 1 to MessagesReceived and 1 to
\* exactly one of MessagesProcessed and MessagesFailed; MessagesReceived
\* never decreases.
MetricsConsistent ==
    /\ MetricsBalanced
    /\ [][ /\ MetricsBalanced'
           /\ metrics'.MessagesReceived >= metrics.MessagesReceived
           /\ metrics' # metrics =>
                /\ metrics'.MessagesReceived = metrics.MessagesReceived + 1
                /\ \/ /\ metrics'.MessagesProcessed = metrics.MessagesProcessed + 1
                      /\ metrics'.MessagesFailed = metrics.MessagesFailed
                   \/ /\ metrics'.MessagesProcessed = metrics.MessagesProcessed
                      /\ metrics'.MessagesFailed = metrics.MessagesFailed + 1 ]_vars

\* C2 witness: one message counted as processed and one as failed
MetricsConsistentWitness ==
    /\ metrics.MessagesProcessed = 1
    /\ metrics.MessagesFailed = 1
    /\ metrics.MessagesReceived = 2

\* the step of Run that handles the error of a failed read
Handled == runPc = "handle" /\ runPc' # "handle"

\* C8: every read error that is not a typed broker error produces a health
\* line carrying the error text.
UntypedErrorsLogged ==
    [][ (Handled /\ ~err.typed) =>
           \E i \in (Len(logLog) + 1)..Len(logLog') : logLog'[i].error = err.text ]_vars

\* C9: every read error other than a timeout increments the consecutive-error
\* counter, and the loop stops exactly when the counter reaches MaxErrors.
ReadErrorsCounted ==
    [][ (Handled /\ err.code # "ErrTimedOut") =>
           /\ consecutiveErrors' = consecutiveErrors + 1
           /\ (runPc' = "returned") = (consecutiveErrors' >= MaxErrors) ]_vars

\* a broker-unavailable error, by its code or by its text
BrokerUnavailable(e) ==
    \/ e.code = "ErrAllBrokersDown"
    \/ Contains(e.text, <<"brokers", "are", "down">>)
    \/ Contains(e.text, <<"Connection", "refused">>)

\* C10: every broker-unavailable read error is counted; when the count of
\* consecutive errors reaches MaxErrors the tracker writes an INFO line with
\* reason "brokers_unavailable" and the loop returns; below MaxErrors the
\* loop keeps reading.
BrokersUnavailableStops ==
    [][ (Handled /\ BrokerUnavailable(err)) =>
           /\ consecutiveErrors' = consecutiveErrors + 1
           /\ IF consecutiveErrors' >= MaxErrors
              THEN /\ runPc' = "returned"
                   /\ Len(logLog') = Len(logLog) + 1
                   /\ logLog'[Len(logLog')].level = "INFO"
                   /\ logLog'[Len(logLog')].reason = "brokers_unavailable"
              ELSE /\ runPc' = "head"
                   /\ logLog' = logLog ]_vars

\* C11: once Stop has been called (at any moment after Run was spawned) the
\* read loop returns: the next loop head leaves the loop, and Run eventually
\* returns, every broker read returning.  (A process that died of a panic has
\* no loop left.)
StopEndsLoop ==
    /\ [][ (stopChan = "closed" /\ runPc = "head" /\ runPc' # "head")
              => runPc' = "returned" ]_vars
    /\ (stopChan = "closed") ~> (runPc = "returned" \/ panicked)

\* C12: a second or later call of Stop completes without a panic.
StopIdempotent == ~panicked

\* a step of processMessage for the message in msg
ProcessStep == runPc \in {"audit", "metrics", "after"} /\ runPc' # runPc

\* C13: for a message whose payload does not deserialize, processMessage
\* appends one audit line with deserialized = false and the parse error, then
\* adds 1 to MessagesReceived and MessagesFailed and leaves MessagesProcessed,
\* then appends one ERROR health line with the parse error; it makes no call
\* to the retry engine and no DLQ send.
MalformedCountedFailed ==
    [][ (ProcessStep /\ Unmarshal(msg.value) # "nil") =>
          /\ runPc = "audit" =>
                /\ Len(eventLog') = Len(eventLog) + 1
                /\ SubSeq(eventLog', 1, Len(eventLog)) = eventLog
                /\ eventLog'[Len(eventLog')].deserialized = FALSE
                /\ eventLog'[Len(eventLog')].error = Unmarshal(msg.value)
                /\ eventLog'[Len(eventLog')].kafka_offset = msg.offset
                /\ eventLog'[Len(eventLog')].raw_message = msg.value
                /\ UNCHANGED <<metrics, logLog>>
          /\ runPc = "metrics" =>
                /\ metrics'.MessagesReceived = metrics.MessagesReceived + 1
                /\ metrics'.MessagesFailed = metrics.MessagesFailed + 1
                /\ metrics'.MessagesProcessed = metrics.MessagesProcessed
                /\ UNCHANGED <<eventLog, logLog>>
          /\ runPc = "after" =>
                /\ Len(logLog') = Len(logLog) + 1
                /\ SubSeq(logLog', 1, Len(logLog)) = logLog
                /\ logLog'[Len(logLog')].level = "ERROR"
                /\ logLog'[Len(logLog')].error = <<Unmarshal(msg.value)>>
                /\ runPc' = "head"
                /\ UNCHANGED <<metrics, eventLog>>
          /\ UNCHANGED <<retryVars, dlqVars>>
          /\ retryPc = "idle"
          /\ dlqCalls = <<>> ]_vars

\* C13 witness: a malformed message has been processed: audited, counted as
\* failed and reported in the health file
MalformedCountedFailedWitness ==
    /\ runPc = "head"
    /\ Len(eventLog) = 1
    /\ eventLog[1].deserialized = FALSE
    /\ metrics = [MessagesReceived |-> 1, MessagesProcessed |-> 0, MessagesFailed |-> 1]
    /\ \E i \in DOMAIN logLog : logLog[i].level = "ERROR"

\* C14: for a message whose payload deserializes into an Order,
\* processMessage appends one audit line with deserialized = true and the
\* order, then adds 1 to MessagesReceived and MessagesProcessed and leaves
\* MessagesFailed, and writes no health line; while every message so far
\* deserialized, MessagesReceived = MessagesProcessed = the number of
\* messages handled and MessagesFailed = 0.
OrderCountedProcessed ==
    /\ [][ (ProcessStep /\ Unmarshal(msg.value) = "nil") =>
             /\ runPc = "audit" =>
                   /\ Len(eventLog') = Len(eventLog) + 1
                   /\ SubSeq(eventLog', 1, Len(eventLog)) = eventLog
                   /\ eventLog'[Len(eventLog')].deserialized = TRUE
                   /\ eventLog'[Len(eventLog')].order_full = msg.value
                   /\ eventLog'[Len(eventLog')].error = ""
                   /\ eventLog'[Len(eventLog')].kafka_offset = msg.offset
                   /\ UNCHANGED <<metrics, logLog>>
             /\ runPc = "metrics" =>
                   /\ metrics'.MessagesReceived = metrics.MessagesReceived + 1
                   /\ metrics'.MessagesProcessed = metrics.MessagesProcessed + 1
                   /\ metrics'.MessagesFailed = metrics.MessagesFailed
                   /\ UNCHANGED <<eventLog, logLog>>
             /\ runPc = "after" =>
                   /\ runPc' = "head"
                   /\ UNCHANGED <<metrics, eventLog, logLog>> ]_vars
    /\ []( (\A i \in DOMAIN eventLog : eventLog[i].deserialized) =>
             /\ metrics.MessagesFailed = 0
             /\ metrics.MessagesProcessed = metrics.MessagesReceived
             /\ metrics.MessagesReceived =
                   Len(eventLog) - (IF runPc = "metrics" THEN 1 ELSE 0) )

\* C14 witness: two orders have been processed
OrderCountedProcessedWitness ==
    /\ runPc = "head"
    /\ Len(eventLog) = 2
    /\ eventLog[1].deserialized /\ eventLog[2].deserialized
    /\ eventLog[2].raw_message = "order"
    /\ metrics = [MessagesReceived |-> 2, MessagesProcessed |-> 2, MessagesFailed |-> 0]

\* C22: once Run has returned, by whichever exit of the read loop, the
\* running flag is false.
RunningFalseAfterRun == runPc = "returned" => ~running

\* C23: LogEvent appends at the end of the audit file and keeps what is
\* there, so for two audit lines of one partition the line of the message
\* delivered first (the lower offset: the broker delivers a partition's
\* offsets in increasing order) comes first; lines of different partitions
\* are in no required order.
AuditOrderPerPartition ==
    /\ [][ (runPc = "audit" /\ runPc' # "audit") =>
              /\ Len(eventLog') = Len(eventLog) + 1
              /\ SubSeq(eventLog', 1, Len(eventLog)) = eventLog
              /\ eventLog'[Len(eventLog')].kafka_partition = msg.partition
              /\ eventLog'[Len(eventLog')].kafka_offset = msg.offset ]_vars
    /\ [](\A i, j \in DOMAIN eventLog :
             (i < j /\ eventLog[i].kafka_partition = eventLog[j].kafka_partition)
                => eventLog[i].kafka_offset < eventLog[j].kafka_offset)

\* C23 witness: two messages of partition 0 with a message of partition 1
\* delivered between them, all three audited
AuditOrderPerPartitionWitness ==
    /\ Len(eventLog) = 3
    /\ eventLog[1].kafka_partition = 0 /\ eventLog[1].kafka_offset = 0
    /\ eventLog[2].kafka_partition = 1 /\ eventLog[2].kafka_offset = 0
    /\ eventLog[3].kafka_partition = 0 /\ eventLog[3].kafka_offset = 1

\* a read error that handleKafkaError counts: a broker error other than the
\* timeout
Counted(e) == e.typed /\ e.code # "ErrTimedOut"

\* C27: a message read and a read timeout each set consecutiveErrors to 0
\* and keep the loop going; a counted error adds 1; no other step changes the
\* counter; the loop is left for errors only by the step that handles a
\* counted error and brings the counter to MaxErrors.  So Run has returned
\* with the tracker still running only after MaxErrors counted errors with
\* no message and no timeout between them.
ErrorCounterReset ==
    /\ [][ /\ (runPc = "read" /\ runPc' = "audit") => consecutiveErrors' = 0
           /\ (Handled /\ err.code = "ErrTimedOut") =>
                 consecutiveErrors' = 0 /\ runPc' = "head"
           /\ (Handled /\ Counted(err)) => consecutiveErrors' = consecutiveErrors + 1
           /\ (Handled /\ runPc' = "returned") =>
                 Counted(err) /\ consecutiveErrors' = MaxErrors
           /\ consecutiveErrors' # consecutiveErrors =>
                 \/ runPc = "read" /\ runPc' = "audit"
                 \/ Handled /\ err.typed ]_vars
    /\ []((runPc = "returned" /\ running) => consecutiveErrors = MaxErrors)
    /\ [](consecutiveErrors \in 0..MaxErrors)

\* C27 witness: two counted read errors, each logged, then a timeout: the
\* counter is back at 0 and the loop goes on
ErrorCounterResetWitness ==
    /\ runPc = "head"
    /\ consecutiveErrors = 0
    /\ events = 2
    /\ nextOffset = [p \in Partitions |-> 0]
    /\ Len(logLog) = 2
    /\ logLog[1].level = "ERROR" /\ logLog[2].level = "ERROR"

\* C28: every periodic-metrics health line reports totals with
\* messages_received = messages_processed + messages_failed, and its success
\* rate is the one of the reported messages_processed and messages_received.
PeriodicSnapshotConsistent ==
    \A i \in DOMAIN logLog :
        logLog[i].message = "Metriques systeme periodiques" =>
            /\ logLog[i].counts[1] = logLog[i].counts[2] + logLog[i].counts[3]
            /\ logLog[i].counts[4] = <<logLog[i].counts[2], logLog[i].counts[1]>>

\* C21 (checked under SpecWriteFail): whether or not the audit write and the
\* health write succeed, each step of processMessage goes on to the next one
\* without a panic, recordMetrics counts the message, the last step returns
\* to the loop head, and a loop head that finds the tracker running goes to
\* the next broker read; so every delivered message is counted, except the
\* one processMessage has not yet counted.
LogFailureNotRaised ==
    /\ [][ /\ ProcessStep =>
                /\ ~panicked'
                /\ runPc = "audit" => runPc' = "metrics" /\ UNCHANGED metrics
                /\ runPc = "metrics" =>
                      /\ runPc' = "after"
                      /\ metrics'.MessagesReceived = metrics.MessagesReceived + 1
                /\ runPc = "after" => runPc' = "head"
           /\ (runPc = "head" /\ runPc' # "head" /\ running) => runPc' = "read" ]_vars
    /\ [](metrics.MessagesReceived =
             nextOffset[0] + nextOffset[1]
               - (IF runPc \in {"audit", "metrics"} THEN 1 ELSE 0))

\* C21 witness: both files fail, a malformed message left no audit line and
\* no health line, it is counted, and the loop is at its next broker read
LogFailureNotRaisedWitness ==
    /\ eventFile = "failing" /\ logFile = "failing"
    /\ eventLog = <<>> /\ logLog = <<>>
    /\ metrics = [MessagesReceived |-> 1, MessagesProcessed |-> 0, MessagesFailed |-> 1]
    /\ runPc = "read"

\* the handler of message m fails on every attempt: the payload decodes into
\* an Order that Order.Validate rejects, whenever it is tried
HandlerFails(m) == Unmarshal(m.value) = "nil" /\ Validate(m.value) # "nil"

\* the Send calls made for message m
SendsFor(calls, m) == {i \in DOMAIN calls : calls[i].msg = m}

\* C15: when processMessage is done with a message whose handler fails on
\* every attempt, the message has been handed to the DLQ exactly once, with
\* its own offset and attempts = MaxAttempts, it is counted as failed and not
\* as processed, and the read loop goes on to its next iteration.
FailedHandlerToDLQ ==
    [][ (runPc = "after" /\ runPc' # "after" /\ HandlerFails(msg)) =>
          /\ Cardinality(SendsFor(dlqCalls', msg)) = 1
          /\ \A i \in SendsFor(dlqCalls', msg) :
                /\ dlqCalls'[i].msg.offset = msg.offset
                /\ dlqCalls'[i].attempts = cfg.MaxAttempts
          /\ metrics'.MessagesFailed >= 1
          /\ metrics'.MessagesProcessed + metrics'.MessagesFailed
                = metrics'.MessagesReceived
          /\ runPc' = "head" ]_vars

\* C16: a message that decodes into an Order which fails Order.Validate is
\* not counted as processed, and is not retried.
InvalidOrderNotProcessed ==
    [][ (runPc = "metrics" /\ runPc' # "metrics" /\ HandlerFails(msg)) =>
          /\ metrics'.MessagesProcessed = metrics.MessagesProcessed
          /\ UNCHANGED retryVars ]_vars

\* the goroutine running Do keeps running: a loop head or a wait whose select
\* has a ready case is eventually left
SpecRetryFair ==
    SpecRetry /\ WF_vars(RetryLoop \/ WaitElapsed \/ WaitCancelled)

-----------------------------------------------------------------------------
(* Properties of the retry engine, checked under SpecRetry *)

PermanentTagged(e) == e.kind \in {"permanent", "wrapsPermanent"}

\* C3: with MaxAttempts >= 1 the closure is invoked at most MaxAttempts
\* times, and an invocation that returns a Permanent-tagged error is the last
\* one: Do has returned, with that error (after one invocation when the first
\* result is permanent).
AtMostMaxAttempts ==
    cfg.MaxAttempts >= 1 =>
        /\ Len(rets) <= cfg.MaxAttempts
        /\ \A i \in DOMAIN rets :
              PermanentTagged(rets[i]) =>
                 /\ i = Len(rets)
                 /\ retryPc = "done"
                 /\ result.Err = rets[i]

\* C3 witness: the first invocation returned an error wrapping a permanent one
AtMostMaxAttemptsWitness ==
    /\ cfg.MaxAttempts = 3
    /\ Len(rets) = 1
    /\ rets[1].kind = "wrapsPermanent"
    /\ retryPc = "done"

\* C4: an invocation that returns nil is the last one and Do returns
\* Err = nil with Attempts = the number of invocations made; and unless the
\* token is cancelled Do does not return after a plain error before the
\* MaxAttempts-th invocation, so a closure that succeeds on its n-th call
\* (n <= MaxAttempts) is invoked exactly n times.
RetryThenSuccess ==
    /\ \A i \in DOMAIN rets :
          rets[i].kind = "nil" =>
             /\ i = Len(rets)
             /\ i <= cfg.MaxAttempts
             /\ \A k \in 1..(i - 1) : rets[k].kind = "plain"
             /\ retryPc = "done"
             /\ result = [Attempts |-> i, Err |-> NilErr]
    /\ (retryPc = "done" /\ ~ctxDone /\ cfg.MaxAttempts >= 1) =>
          /\ Len(rets) >= 1
          /\ rets[Len(rets)].kind = "plain" => Len(rets) = cfg.MaxAttempts

\* C4 witness: two plain errors, then success on the third invocation
RetryThenSuccessWitness ==
    /\ cfg.MaxAttempts = 3
    /\ ~ctxDone
    /\ retryPc = "done"
    /\ Len(rets) = 3
    /\ rets[1].kind = "plain" /\ rets[2].kind = "plain" /\ rets[3].kind = "nil"

\* C5: when every invocation returns a plain error and the token is never
\* cancelled (MaxAttempts >= 1), Do returns after exactly MaxAttempts
\* invocations with the last invocation's error and Attempts = MaxAttempts;
\* and Do never waits after the MaxAttempts-th attempt.
ExhaustedReturnsLast ==
    /\ retryPc = "wait" => Len(rets) < cfg.MaxAttempts
    /\ ( /\ retryPc = "done"
         /\ ~ctxDone
         /\ cfg.MaxAttempts >= 1
         /\ \A i \in DOMAIN rets : rets[i].kind = "plain" ) =>
          /\ Len(rets) = cfg.MaxAttempts
          /\ result = [Attempts |-> cfg.MaxAttempts, Err |-> rets[cfg.MaxAttempts]]

\* C5 witness: three plain errors with MaxAttempts = 3, never cancelled
ExhaustedReturnsLastWitness ==
    /\ cfg.MaxAttempts = 3
    /\ ~ctxDone
    /\ retryPc = "done"
    /\ Len(rets) = 3
    /\ rets[3].kind = "plain"

\* C6 (checked under SpecRetryFair): once the token has fired during a
\* backoff wait the closure is never invoked again, Do eventually returns,
\* and the result it returns carries the cancellation error.
CancelDuringWait ==
    /\ [][cancelledAt = "wait" => rets' = rets]_vars
    /\ [](cancelledAt = "wait" /\ retryPc = "done" => result.Err = CtxErr)
    /\ (cancelledAt = "wait") ~> (retryPc = "done")

\* C6 witness: Do returned after a cancellation that arrived during the wait
\* that followed the first attempt
CancelDuringWaitWitness ==
    /\ cancelledAt = "wait"
    /\ retryPc = "done"
    /\ Len(rets) = 1
    /\ cfg.MaxAttempts = 3

NotifiedAttempts ==
    {i \in DOMAIN rets : rets[i].kind = "plain" /\ i < cfg.MaxAttempts}

DkNum(k, c) ==
    IF c.InitialDelay * Pow(c.MultNum, k - 1) > c.MaxDelay * Pow(c.MultDen, k - 1)
    THEN c.MaxDelay ELSE c.InitialDelay * Pow(c.MultNum, k - 1)
DkDen(k, c) ==
    IF c.InitialDelay * Pow(c.MultNum, k - 1) > c.MaxDelay * Pow(c.MultDen, k - 1)
    THEN 1 ELSE Pow(c.MultDen, k - 1)

\* C7 as claimed: the wait after attempt k lies in [0.75*d_k, 1.25*d_k].
BackoffInJitterBand ==
    retryPc = "wait" =>
        /\ 3 * DkNum(attempt, cfg) <= 4 * DkDen(attempt, cfg) * delay
        /\ 4 * DkDen(attempt, cfg) * delay <= 5 * DkNum(attempt, cfg)

\* C7 amended: the wait after attempt k (k < MaxAttempts) is a whole number
\* of nanoseconds, the jittered value truncated, so it lies in
\* [floor(0.75*d_k), 1.25*d_k].
BackoffInTruncatedBand ==
    retryPc = "wait" =>
        /\ attempt < cfg.MaxAttempts
        /\ (3 * DkNum(attempt, cfg)) \div (4 * DkDen(attempt, cfg)) <= delay
        /\ 4 * DkDen(attempt, cfg) * delay <= 5 * DkNum(attempt, cfg)

\* C7 witness: the wait after the second attempt, below 0.75*d_2 by the
\* truncation
BackoffInTruncatedBandWitness ==
    /\ retryPc = "wait"
    /\ attempt = 2
    /\ delay > 0
    /\ 4 * DkDen(attempt, cfg) * delay < 3 * DkNum(attempt, cfg)

\* C34: in every Result returned (with MaxAttempts >= 1), Attempts is the
\* number of invocations of the closure.
AttemptsCountsInvocations ==
    (retryPc = "done" /\ cfg.MaxAttempts >= 1) => result.Attempts = Len(rets)

\* C35: for every Config, a Result with Err = nil is returned only after an
\* invocation of the closure that returned nil, the last one made.
ErrNilOnlyOnSuccess ==
    (retryPc = "done" /\ result.Err = NilErr) =>
        /\ Len(rets) >= 1
        /\ rets[Len(rets)].kind = "nil"

-----------------------------------------------------------------------------
(* Properties of the Logger, checked under SpecLogger *)

\* the tasks between l.mu.Lock() and l.mu.Unlock()
InLogger == {t \in Tasks : lgPc[t] \in {"encode", "unlock"}}

\* C32: at most one task is inside a write operation of the Logger at any
\* time, and it is the holder of the mutex; the file holds one line for each
\* call that has reached its Encode, each call's entry once and whole, and a
\* step that writes adds one line at the end.
LoggerCallsExclusive ==
    /\ [](Cardinality(InLogger) <= 1)
    /\ [](\A t \in InLogger : lgMu = t)
    /\ [](lgMu = "free" <=> InLogger = {})
    /\ [](\A i, j \in DOMAIN lgFile : lgFile[i].n = lgFile[j].n => i = j)
    /\ [](\A i \in DOMAIN lgFile :
             lgFile[i].op \in LoggerOps /\ lgFile[i].task \in Tasks
               /\ lgFile[i].n \in 1..lgCalls)
    /\ [](Len(lgFile) = lgCalls - Cardinality({t \in Tasks : lgPc[t] \in {"lock", "encode"}}))
    /\ [][ lgFile' # lgFile =>
              \E t \in Tasks : lgMu = t /\ lgFile' = Append(lgFile, lgEntry[t]) ]_vars

\* C32 witness: the ticker is writing its line while the read loop and Stop
\* wait for the mutex, one line being in the file already
LoggerCallsExclusiveWitness ==
    /\ lgPc["tick"] = "unlock"
    /\ lgPc["run"] = "lock"
    /\ lgPc["stop"] = "lock"
    /\ Len(lgFile) = 1
    /\ lgFile[1].task = "tick"

\* messages the broker delivered to the tracker's read loop
TrackerReceived == nextOffset[0] + nextOffset[1]

\* C36: the Monitor counts a message on both paths: every audit entry it
\* ingests adds one to its MessagesReceived, whatever the count is, and every
\* periodic health entry it ingests overwrites MessagesReceived with the
\* tracker's cumulative count, which includes the messages whose audit
\* entries are ingested afterwards.
MonitorCountsBothPaths ==
    [][ /\ (monEventPos' = monEventPos + 1 =>
               monMetrics'.MessagesReceived = monMetrics.MessagesReceived + 1)
        /\ (monLogPos' = monLogPos + 1 /\ IsPeriodic(logLog[monLogPos']) =>
               monMetrics'.MessagesReceived = logLog[monLogPos'].counts[1]) ]_vars

\* C36 witness: after a periodic entry and an audit entry were ingested, the
\* Monitor's MessagesReceived exceeds the number of messages the tracker
\* received
MonitorCountsBothPathsWitness ==
    /\ monLogPos >= 1
    /\ monEventPos >= 1
    /\ \E i \in 1..monLogPos : IsPeriodic(logLog[i])
    /\ monMetrics.MessagesReceived > TrackerReceived

\* the last min(n, max) of the first n entries of all
LastOf(all, n, max) ==
    LET k == IF n < max THEN n ELSE max
    IN  [i \in 1..k |-> all[n - k + i]]

\* C37: RecentLogs holds at most MaxRecentLogs entries and RecentEvents at
\* most MaxRecentEvents, and each list is the most recent entries processed,
\* in arrival order.
RecentListsAreWindows ==
    /\ Len(RecentLogs) <= MaxRecentLogs
    /\ Len(RecentEvents) <= MaxRecentEvents
    /\ RecentLogs = LastOf([n \in 1..monLogPos |-> TestLogEntry(n)],
                           monLogPos, MaxRecentLogs)
    /\ RecentEvents = LastOf([n \in 1..monEventPos |-> TestEventEntry(n)],
                             monEventPos, MaxRecentEvents)

\* C37 witness: more entries than the bound went through both lists, the
\* oldest ones are gone
RecentListsAreWindowsWitness ==
    /\ monLogPos = MaxRecentLogs + 2
    /\ monEventPos = MaxRecentEvents + 1
    /\ Len(RecentLogs) = MaxRecentLogs
    /\ RecentLogs[1] = TestLogEntry(3)
    /\ Len(RecentEvents) = MaxRecentEvents
    /\ RecentEvents[1] = TestEventEntry(2)

\* a step of MonitorFile from its os.Stat
StatStep == tailPc = "stat" /\ tailOps' = tailOps /\ tailVars' # tailVars

\* C38: MonitorFile reopens the file and resets its position to 0 whenever
\* the file has disappeared or is smaller than the saved position; otherwise
\* the position never decreases, and it advances only when lines were read;
\* each line appended to the file is sent to the channel at most once.
TailerDeliversOnce ==
    /\ [][ (StatStep /\ tailPath = 0) => tailPc' = "reopenGone" ]_vars
    /\ [][ (StatStep /\ tailPath # 0 /\ statSize' < currentPos) =>
              tailPc' = "reopenShrunk" ]_vars
    /\ [][ (tailPc \in {"reopenGone", "reopenShrunk"} /\ tailPc' # tailPc) =>
              (currentPos' = 0 /\ tailFile' = tailPath) ]_vars
    /\ [][ currentPos' < currentPos =>
              tailPc \in {"reopenGone", "reopenShrunk"} ]_vars
    /\ [][ currentPos' > currentPos =>
              (tailPc = "reopenRead" /\ currentPos' = newPos) ]_vars
    /\ [][ tailPc = "read" /\ newPos' > currentPos =>
              Scanned(tailInodes[tailFile], currentPos) # {} ]_vars
    /\ [](\A id \in 1..MaxFileOps : deliveries[id] <= 1)

\* C39: a ProduceOrder call whose Produce returns nil adds one message and
\* increases the sequence by exactly 1; a call whose Produce returns an error
\* returns that error and leaves the sequence and the accepted messages as
\* they were; sequence - 1 is always the number of accepted messages, which
\* carry the sequence numbers 1, 2, ... in order.
SequenceCountsAccepted ==
    /\ [][ Len(prodRets') = Len(prodRets) + 1 =>
              IF prodRets'[Len(prodRets')] = "nil"
              THEN /\ sequence' = sequence + 1
                   /\ Len(prodQueue') = Len(prodQueue) + 1
              ELSE /\ sequence' = sequence
                   /\ prodQueue' = prodQueue ]_vars
    /\ [](sequence - 1 = Len(prodQueue))
    /\ [](\A i \in DOMAIN prodQueue : prodQueue[i].Sequence = i)

\* C39 witness: Produce failed once between two accepted messages; the
\* sequence stands at 3
SequenceCountsAcceptedWitness ==
    /\ prodRets = <<"nil", "queue full", "nil">>
    /\ sequence = 3
    /\ Len(prodQueue) = 2

====
